---- MODULE Spec2Model ----
(***************************************************************************)
(* LUCID Finance: ingestion pipeline (extract, classify, validate, load,   *)
(* mark), budget reconciliation (yearly/monthly fan-out and fan-in, and    *)
(* the dashboard's budget resolution) and the categorization rules.        *)
(*                                                                         *)
(* Three specifications share this module:                                 *)
(*   SpecIngest  - TransactionPipeline, TransactionLoader and              *)
(*                 ProcessedFileTracker over the transactions,             *)
(*                 processed_files and categories tables;                  *)
(*   SpecBudget  - create_budget, delete_budget and the budget part of     *)
(*                 get_dashboard_summary over the budget_plans table;      *)
(*   SpecRules   - the rules router and                                    *)
(*                 TransactionTransformer._check_custom_rules over the     *)
(*                 categorization_rules table and the rule cache.          *)
(* Money is counted in cents (the columns are Numeric(12, 2)).             *)
(***************************************************************************)
EXTENDS Integers, Sequences, FiniteSets, TLC

VARIABLES
    transactions,     \* rows of table transactions (committed)
    processed_files,  \* rows of table processed_files (committed)
    categories,       \* rows of table categories (committed)
    fileRows,         \* the statement files on disk: filename -> fingerprints of its rows
    sess,             \* a session a caller of load owns: [pending, failed]
    ingested,         \* filenames whose _process_*_file has returned once (history)
    budget_plans,     \* rows of table budget_plans (committed)
    nextBudgetId,     \* the AUTO_INCREMENT counter of budget_plans.id
    rules,            \* rows of table categorization_rules (committed)
    nextRuleId,       \* the AUTO_INCREMENT counter of categorization_rules.id
    cache,            \* TransactionTransformer._rules_cache / _rules_cache_time
    now,              \* the clock, in seconds
    inflight,         \* the requests that are between two of their steps
    last              \* what the last operation was given and what it returned

vars == <<transactions, processed_files, categories, fileRows, sess, ingested,
          budget_plans, nextBudgetId, rules, nextRuleId, cache, now, inflight,
          last>>

ingestVars == <<transactions, processed_files, categories, fileRows, sess, ingested>>
budgetVars == <<budget_plans, nextBudgetId>>
rulesVars  == <<rules, nextRuleId, cache, now>>
flightVars == <<inflight>>

(***************************************************************************)
(* Bounds and input sets                                                   *)
(***************************************************************************)
NumOwners == 2
NumHashes == 2
MaxFileLen == 2

Owners == 1..NumOwners
Hashes == 1..NumHashes
Labels == {"Groceries", "Extras"}
FileNames == {"ubs.csv", "cc.csv"}

\* a column left unset by the constructor is None and is written as SQL NULL
NULL == 0

RECURSIVE SeqsUpTo(_, _)
SeqsUpTo(S, n) ==
    IF n = 0 THEN {<< >>}
    ELSE LET shorter == SeqsUpTo(S, n - 1)
         IN shorter \cup {Append(s, x) : s \in {t \in shorter : Len(t) = n - 1}, x \in S}

Max(S) == CHOOSE x \in S : \A y \in S : y <= x

SetOfSeq(s) == {s[i] : i \in 1..Len(s)}

\* the classified records load is given: fingerprint, category, and whether
\* building the Transaction object from the record succeeds
Records == [transaction_hash : Hashes, category : Labels, ok : BOOLEAN]

NoStats == [total |-> 0, inserted |-> 0, skipped |-> 0, errors |-> 0]

NoLast == [op |-> "none", raised |-> FALSE, files |-> {}, force |-> FALSE,
           extracted |-> {}, batch |-> << >>, stats |-> NoStats,
           owner |-> NULL, key |-> "", month |-> NULL, amount |-> 0,
           auto |-> FALSE, id |-> 0, result |-> << >>, order |-> << >>,
           description |-> << >>, raw |-> << >>, input |-> << >>,
           errors |-> << >>]

(***************************************************************************)
(* The store: constraints of the tables and the flush of a session         *)
(***************************************************************************)

\* identify_file_type: by filename
identify_file_type(filename) ==
    IF filename = "ubs.csv" THEN "UBS"
    ELSE IF filename = "cc.csv" THEN "CC"
    ELSE "None"

NextId(rows) == IF rows = {} THEN 1 ELSE Max({r.id : r \in rows}) + 1

NotNullOk_nullable(row) == TRUE

\* Column user_id is nullable=False in transactions, processed_files, categories
NotNullOk(row) == row.user_id # NULL

\* UniqueConstraint("user_id", "transaction_hash"); a unique index does not
\* compare rows that hold NULL in one of its columns
TxUniqueOk(rows, row) ==
    \/ row.user_id = NULL
    \/ \A r \in rows :
           ~(r.user_id = row.user_id /\ r.transaction_hash = row.transaction_hash)

\* UniqueConstraint("user_id", "filename")
FileUniqueOk(rows, row) ==
    \/ row.user_id = NULL
    \/ \A r \in rows : ~(r.user_id = row.user_id /\ r.filename = row.filename)

\* The flush of the pending Transaction objects of a session, in the order
\* they were added: every INSERT is checked against the constraints, and the
\* first violation raises IntegrityError.
RECURSIVE FlushTx(_, _)
FlushTx(rows, pending) ==
    IF pending = << >> THEN [ok |-> TRUE, rows |-> rows]
    ELSE LET row == [Head(pending) EXCEPT !.id = NextId(rows)]
         IN IF NotNullOk(row) /\ TxUniqueOk(rows, row)
            THEN FlushTx(rows \cup {row}, Tail(pending))
            ELSE [ok |-> FALSE, rows |-> rows]

\* The flush of the pending ProcessedFile objects of a session
RECURSIVE FlushMarkers(_, _)
FlushMarkers(markers, pending) ==
    IF pending = << >> THEN [ok |-> TRUE, rows |-> markers]
    ELSE LET row == [Head(pending) EXCEPT !.id = NextId(markers)]
         IN IF NotNullOk(row) /\ FileUniqueOk(markers, row)
            THEN FlushMarkers(markers \cup {row}, Tail(pending))
            ELSE [ok |-> FALSE, rows |-> markers]

(***************************************************************************)
(* TransactionLoader                                                       *)
(***************************************************************************)

\* _get_existing_hashes: every transaction_hash of the table
ExistingHashes(rows) == {r.transaction_hash : r \in rows}

\* Transaction(...) as load builds it: user_id is not among the arguments
NewTransaction(trans) ==
    [id |-> 0, user_id |-> NULL, transaction_hash |-> trans.transaction_hash,
     category |-> trans.category]

\* the for loop of load
RECURSIVE LoadLoop(_, _, _)
LoadLoop(batch, existing_hashes, acc) ==
    IF batch = << >> THEN acc
    ELSE LET trans == Head(batch)
         IN IF trans.transaction_hash \in existing_hashes
            THEN LoadLoop(Tail(batch), existing_hashes,
                          [acc EXCEPT !.skipped = @ + 1])
            ELSE IF trans.ok
            THEN LoadLoop(Tail(batch),
                          existing_hashes \cup {trans.transaction_hash},
                          [acc EXCEPT !.inserted = @ + 1,
                                      !.added = Append(@, NewTransaction(trans))])
            ELSE LoadLoop(Tail(batch), existing_hashes,
                          [acc EXCEPT !.errors = @ + 1])

LoadAcc == [inserted |-> 0, skipped |-> 0, errors |-> 0, added |-> << >>]

StatsOf(batch, acc) ==
    [total |-> Len(batch), inserted |-> acc.inserted,
     skipped |-> acc.skipped, errors |-> acc.errors]

LoadOwn_overwrites(rows, batch) ==
    LET acc == LoadLoop(batch, ExistingHashes(rows), LoadAcc)
        fl  == FlushTx(rows, acc.added)
        upd == {IF \E i \in 1..Len(batch) :
                       batch[i].transaction_hash = r.transaction_hash
                THEN [r EXCEPT !.category =
                         batch[CHOOSE i \in 1..Len(batch) :
                                   batch[i].transaction_hash = r.transaction_hash].category]
                ELSE r : r \in rows}
    IN IF fl.ok
       THEN [raised |-> FALSE, rows |-> upd \cup (fl.rows \ rows),
             stats |-> StatsOf(batch, acc)]
       ELSE [raised |-> TRUE, rows |-> rows, stats |-> NoStats]

\* load(transactions) with its own session: loop, commit, and on a failed
\* commit rollback and re-raise.
LoadOwn(rows, batch) ==
    LET acc == LoadLoop(batch, ExistingHashes(rows), LoadAcc)
        fl  == FlushTx(rows, acc.added)
    IN IF fl.ok
       THEN [raised |-> FALSE, rows |-> fl.rows, stats |-> StatsOf(batch, acc)]
       ELSE [raised |-> TRUE, rows |-> rows, stats |-> NoStats]

(***************************************************************************)
(* ProcessedFileTracker                                                    *)
(***************************************************************************)

\* is_processed(filename): any row of that filename
is_processed(markers, filename) == \E m \in markers : m.filename = filename

\* mark_processed(filename, file_type, record_count) with its own session:
\* ProcessedFile(...) is built without user_id; IntegrityError is swallowed.
NewProcessedFile(filename, file_type, record_count) ==
    [id |-> 0, user_id |-> NULL, filename |-> filename, file_type |-> file_type,
     record_count |-> record_count]

mark_processed(markers, filename, file_type, record_count) ==
    LET row == [NewProcessedFile(filename, file_type, record_count)
                    EXCEPT !.id = NextId(markers)]
    IN IF NotNullOk(row) /\ FileUniqueOk(markers, row)
       THEN markers \cup {row}
       ELSE markers


(***************************************************************************)
(* load handed the session of its caller                                   *)
(***************************************************************************)

NoSess == [flushed |-> {}, pending |-> << >>, failed |-> FALSE, markers |-> << >>]

\* the rows a query of the session sees: the committed ones and those the
\* session has flushed in its open transaction
Visible(rows, s) == rows \cup s.flushed

\* load(transactions, session): the query of _get_existing_hashes autoflushes
\* what the session holds, the loop adds to the session, nothing is committed,
\* rolled back or closed.
LoadSession_rollsBack(rows, s, batch) ==
    IF s.failed
    THEN [raised |-> TRUE, sess |-> s, stats |-> NoStats]
    ELSE LET acc == LoadLoop(batch, ExistingHashes(Visible(rows, s)), LoadAcc)
         IN [raised |-> FALSE, stats |-> StatsOf(batch, acc), sess |-> NoSess]

LoadSession(rows, s, batch) ==
    IF s.failed
    THEN [raised |-> TRUE, sess |-> s, stats |-> NoStats]
    ELSE LET fl == FlushTx(Visible(rows, s), s.pending)
         IN IF ~fl.ok
            THEN [raised |-> TRUE, stats |-> NoStats,
                  sess |-> [flushed |-> {}, pending |-> << >>, failed |-> TRUE,
                            markers |-> << >>]]
            ELSE LET acc == LoadLoop(batch, ExistingHashes(fl.rows), LoadAcc)
                 IN [raised |-> FALSE, stats |-> StatsOf(batch, acc),
                     sess |-> [flushed |-> fl.rows \ rows, pending |-> acc.added,
                               failed |-> FALSE, markers |-> s.markers]]

(***************************************************************************)
(* TransactionPipeline                                                     *)
(***************************************************************************)

\* setup_database / init_default_categories: returns when categories exist;
\* otherwise adds Category(name, type, display_order) rows, without user_id,
\* and commits.
DefaultCategory == [id |-> 1, user_id |-> NULL, name |-> "Groceries"]

setup_database(cats) ==
    IF Cardinality(cats) > 0 THEN [raised |-> FALSE, cats |-> cats]
    ELSE IF NotNullOk(DefaultCategory)
    THEN [raised |-> FALSE, cats |-> {DefaultCategory}]
    ELSE [raised |-> TRUE, cats |-> cats]

\* transform: one classified record per raw row, with the category the
\* rules and heuristics of the moment give it
transform(raw, cmap) ==
    [i \in 1..Len(raw) |->
        [transaction_hash |-> raw[i], category |-> cmap[raw[i]], ok |-> TRUE]]

\* the state a pipeline call threads through its steps
PipeState(rows, markers, done) ==
    [rows |-> rows, markers |-> markers, done |-> done, raised |-> FALSE,
     extracted |-> {}, processed |-> 0, stats |-> NoStats, failures |-> 0]

AddStats(a, b) ==
    [total |-> a.total + b.total, inserted |-> a.inserted + b.inserted,
     skipped |-> a.skipped + b.skipped, errors |-> a.errors + b.errors]

\* _process_ubs_file / _process_cc_file: extract, transform, validate, load,
\* mark_processed; an exception of load leaves the method before the mark.
process_file(st, files, filename, cmap) ==
    LET raw   == files[filename]
        valid == transform(raw, cmap)
        ld    == LoadOwn(st.rows, valid)
    IN IF ld.raised
       THEN [st EXCEPT !.raised = TRUE, !.extracted = @ \cup {filename}]
       ELSE [st EXCEPT !.rows = ld.rows,
                       !.markers = mark_processed(st.markers, filename,
                                       identify_file_type(filename), Len(valid)),
                       !.done = @ \cup {filename},
                       !.extracted = @ \cup {filename},
                       !.processed = @ + 1,
                       !.stats = AddStats(@, ld.stats)]

\* one branch of process_files: "if file: if force or not is_processed(name)"
process_if_due(st, files, filename, force, cmap) ==
    IF filename = "" \/ st.raised THEN st
    ELSE IF force \/ ~is_processed(st.markers, filename)
    THEN process_file(st, files, filename, cmap)
    ELSE st

\* process_files(ubs_file, cc_file, force): an exception propagates
process_files(rows, markers, done, files, ubs_file, cc_file, force, cmap) ==
    LET st0 == PipeState(rows, markers, done)
        st1 == process_if_due(st0, files, ubs_file, force, cmap)
    IN process_if_due(st1, files, cc_file, force, cmap)

\* _find_csv_files: the files of the folder that are not yet processed (all
\* of them when force), by type
find_csv_files(markers, file_type, force) ==
    {f \in FileNames : /\ (force \/ ~is_processed(markers, f))
                       /\ identify_file_type(f) = file_type}

\* one iteration of a loop of run: an exception of the file is caught and
\* counted in errors
run_one(st, files, filename, cmap) ==
    LET r == process_file([st EXCEPT !.raised = FALSE], files, filename, cmap)
    IN IF r.raised
       THEN [r EXCEPT !.raised = FALSE, !.failures = @ + 1,
                      !.stats = [@ EXCEPT !.errors = @ + 1]]
       ELSE r

RECURSIVE run_all(_, _, _, _)
run_all(st, files, todo, cmap) ==
    IF todo = {} THEN st
    ELSE LET f == CHOOSE x \in todo : TRUE
         IN run_all(run_one(st, files, f, cmap), files, todo \ {f}, cmap)

\* run(raw_folder, force): the UBS files, then the CC files
run(rows, markers, done, files, force, cmap) ==
    LET ubs_files == find_csv_files(markers, "UBS", force)
        cc_files  == find_csv_files(markers, "CC", force)
        st0 == PipeState(rows, markers, done)
        st1 == run_all(st0, files, ubs_files, cmap)
    IN run_all(st1, files, cc_files, cmap)

(***************************************************************************)
(* Actions of the ingestion specification                                  *)
(***************************************************************************)

ProcessFiles(ubs_file, cc_file, force, cmap) ==
    LET sd == setup_database(categories)
        r  == process_files(transactions, processed_files, ingested, fileRows,
                            ubs_file, cc_file, force, cmap)
    IN /\ ubs_file # "" \/ cc_file # ""
       /\ categories' = sd.cats
       /\ IF sd.raised
          THEN /\ UNCHANGED <<transactions, processed_files, ingested>>
               /\ last' = [NoLast EXCEPT !.op = "process_files", !.raised = TRUE,
                              !.files = {ubs_file, cc_file} \ {""}, !.force = force]
          ELSE /\ transactions' = r.rows
               /\ processed_files' = r.markers
               /\ ingested' = r.done
               /\ last' = [NoLast EXCEPT !.op = "process_files", !.raised = r.raised,
                              !.files = {ubs_file, cc_file} \ {""}, !.force = force,
                              !.extracted = r.extracted, !.stats = r.stats]
       /\ UNCHANGED <<fileRows, sess, budgetVars, rulesVars, flightVars>>

Run(force, cmap) ==
    LET sd == setup_database(categories)
        r  == run(transactions, processed_files, ingested, fileRows, force, cmap)
    IN /\ categories' = sd.cats
       /\ IF sd.raised
          THEN /\ UNCHANGED <<transactions, processed_files, ingested>>
               /\ last' = [NoLast EXCEPT !.op = "run", !.raised = TRUE,
                              !.files = FileNames, !.force = force]
          ELSE /\ transactions' = r.rows
               /\ processed_files' = r.markers
               /\ ingested' = r.done
               /\ last' = [NoLast EXCEPT !.op = "run", !.files = FileNames,
                              !.force = force, !.extracted = r.extracted,
                              !.stats = r.stats]
       /\ UNCHANGED <<fileRows, sess, budgetVars, rulesVars, flightVars>>

\* load(batch) called on its own
Load(batch) ==
    LET r == LoadOwn(transactions, batch)
    IN /\ transactions' = r.rows
       /\ last' = [NoLast EXCEPT !.op = "load", !.raised = r.raised,
                      !.batch = batch, !.stats = r.stats]
       /\ UNCHANGED <<processed_files, categories, fileRows, sess, ingested,
                      budgetVars, rulesVars, flightVars>>

\* load(batch, session) called by the owner of a session
LoadInSession(batch) ==
    LET r == LoadSession(transactions, sess, batch)
    IN /\ sess' = r.sess
       /\ last' = [NoLast EXCEPT !.op = "load_session", !.raised = r.raised,
                      !.batch = batch, !.stats = r.stats]
       /\ UNCHANGED <<transactions, processed_files, categories, fileRows,
                      ingested, budgetVars, rulesVars, flightVars>>

\* the owner of the session commits: flush, then commit; a failed flush
\* rolls the transaction back
SessionCommit ==
    LET fl == FlushTx(Visible(transactions, sess), sess.pending)
        fm == FlushMarkers(processed_files, sess.markers)
    IN /\ sess # NoSess
       /\ IF ~sess.failed /\ fl.ok /\ fm.ok
          THEN /\ transactions' = fl.rows
               /\ processed_files' = fm.rows
               /\ last' = [NoLast EXCEPT !.op = "session_commit"]
          ELSE /\ UNCHANGED <<transactions, processed_files>>
               /\ last' = [NoLast EXCEPT !.op = "session_commit", !.raised = TRUE]
       /\ sess' = NoSess
       /\ UNCHANGED <<categories, fileRows, ingested,
                      budgetVars, rulesVars, flightVars>>

\* the owner of the session rolls back
SessionRollback ==
    /\ sess # NoSess
    /\ sess' = NoSess
    /\ last' = [NoLast EXCEPT !.op = "session_rollback"]
    /\ UNCHANGED <<transactions, processed_files, categories, fileRows, ingested,
                   budgetVars, rulesVars, flightVars>>

\* rows the store held before this version of the loader: each has an owner
OldTransaction(o, h) ==
    [id |-> (o - 1) * NumHashes + h, user_id |-> o, transaction_hash |-> h,
     category |-> "Groceries"]

OldMarker(o, f) ==
    [id |-> 1, user_id |-> o, filename |-> f,
     file_type |-> identify_file_type(f), record_count |-> 0]

\* no request is in flight
NoFlight == << >>

NoCache == [rules |-> << >>, time |-> NULL, filled |-> FALSE]

InitOther ==
    /\ budget_plans = {}
    /\ nextBudgetId = 1
    /\ rules = {}
    /\ nextRuleId = 1
    /\ cache = NoCache
    /\ inflight = NoFlight
    /\ now = 1

InitIngest ==
    /\ \E own \in [Hashes -> Owners \cup {NULL}] :
           transactions = {OldTransaction(own[h], h) : h \in {x \in Hashes : own[x] # NULL}}
    /\ processed_files \in
           {{}} \cup {{OldMarker(o, f)} : o \in Owners, f \in FileNames}
    /\ categories \in {{}, {[DefaultCategory EXCEPT !.user_id = 1]}}
    /\ \E u \in SeqsUpTo(Hashes, MaxFileLen), c \in SeqsUpTo(Hashes, 1) :
           fileRows = [f \in FileNames |-> IF f = "ubs.csv" THEN u ELSE c]
    /\ sess = NoSess
    /\ ingested = {}
    /\ last = NoLast
    /\ InitOther

NextIngest ==
    \/ \E u \in {"", "ubs.csv"}, c \in {"", "cc.csv"}, force \in BOOLEAN,
          label \in Labels : ProcessFiles(u, c, force, [h \in Hashes |-> label])
    \/ \E force \in BOOLEAN, label \in Labels : Run(force, [h \in Hashes |-> label])

SpecIngest == InitIngest /\ [][NextIngest]_vars

\* the loader on its own: a store with rows of earlier imports, and load
\* called standalone or by the owner of a session
InitLoad ==
    /\ \E S \in SUBSET (Owners \X Hashes) :
           transactions = {OldTransaction(p[1], p[2]) : p \in S}
    /\ processed_files = {}
    /\ categories = {[DefaultCategory EXCEPT !.user_id = 1]}
    /\ fileRows = [f \in FileNames |-> << >>]
    /\ sess = NoSess
    /\ ingested = {}
    /\ last = NoLast
    /\ InitOther

NextLoad ==
    \/ \E batch \in SeqsUpTo(Records, MaxFileLen) : Load(batch)
    \/ \E batch \in SeqsUpTo(Records, MaxFileLen) : LoadInSession(batch)
    \/ SessionCommit
    \/ SessionRollback

SpecLoad == InitLoad /\ [][NextLoad]_vars


(***************************************************************************)
(* Budget reconciliation: create_budget, delete_budget                     *)
(***************************************************************************)
MonthsPerYear == 12
MaxBudgetId == 14

BudgetKeys == {"Expenses/Rent"}
\* amounts of yearly requests (one divides by 12, one does not) and of
\* monthly requests, in cents
YearlyAmounts == {1100, 1200}
MonthlyAmounts == {150}

\* the months a request names: none (a yearly entry), the first months of
\* the year, and one number that is no month (the request schema takes any
\* integer)
EditMonths == {1, 2}
MonthInputs == {NULL} \cup EditMonths \cup {MonthsPerYear + 1}

BudgetsOf_anyOwner(plans, owner, key) ==
    {b \in plans : b.key = key}

\* filter(BudgetPlan.user_id == current_user["id"], type, category, year)
BudgetsOf(plans, owner, key) ==
    {b \in plans : b.user_id = owner /\ b.key = key}

\* query(...).filter(user_id, type, category, year, month).first()
BudgetRows(plans, owner, key, month) ==
    {b \in BudgetsOf(plans, owner, key) : b.month = month}

FirstOf(rows) == CHOOSE b \in rows : \A c \in rows : b.id <= c.id

\* Numeric(12, 2) keeps two decimals: the twelfth of an amount of cents is
\* rounded to the cent, half up
Div12(amount) == (amount + MonthsPerYear \div 2) \div MonthsPerYear

\* "BudgetPlan(...); session.add(...)"
InsertBudget(plans, nextId, owner, key, month, amount) ==
    [plans |-> plans \cup {[id |-> nextId, user_id |-> owner, key |-> key,
                            month |-> month, amount |-> amount]},
     nextId |-> nextId + 1, id |-> nextId]

\* "existing = query.first(); if existing: existing.amount = ... else: add"
Upsert_alwaysInsert(plans, nextId, owner, key, month, amount) ==
    InsertBudget(plans, nextId, owner, key, month, amount)

Upsert(plans, nextId, owner, key, month, amount) ==
    LET rows == BudgetRows(plans, owner, key, month)
    IN IF rows # {}
       THEN LET existing == FirstOf(rows)
            IN [plans |-> (plans \ {existing}) \cup
                              {[existing EXCEPT !.amount = amount]},
                nextId |-> nextId, id |-> existing.id]
       ELSE InsertBudget(plans, nextId, owner, key, month, amount)

RECURSIVE FanOut_ifabsent(_, _, _, _, _, _)
FanOut_ifabsent(plans, nextId, owner, key, monthly_amount, month_num) ==
    IF month_num > MonthsPerYear THEN [plans |-> plans, nextId |-> nextId]
    ELSE IF BudgetRows(plans, owner, key, month_num) # {}
    THEN FanOut_ifabsent(plans, nextId, owner, key, monthly_amount, month_num + 1)
    ELSE LET u == InsertBudget(plans, nextId, owner, key, month_num, monthly_amount)
         IN FanOut_ifabsent(u.plans, u.nextId, owner, key, monthly_amount,
                            month_num + 1)

\* the loop "for month_num in range(1, 13)" of the yearly branch
RECURSIVE FanOut(_, _, _, _, _, _)
FanOut(plans, nextId, owner, key, monthly_amount, month_num) ==
    IF month_num > MonthsPerYear THEN [plans |-> plans, nextId |-> nextId]
    ELSE LET u == Upsert(plans, nextId, owner, key, month_num, monthly_amount)
         IN FanOut(u.plans, u.nextId, owner, key, monthly_amount, month_num + 1)

RECURSIVE SumAmounts(_)
SumAmounts(rows) ==
    IF rows = {} THEN 0
    ELSE LET b == CHOOSE x \in rows : TRUE
         IN b.amount + SumAmounts(rows \ {b})

AllMonthly(plans, owner, key) ==
    {b \in BudgetsOf(plans, owner, key) : b.month # NULL}

\* the monthly branch: "if len(all_monthly) == 12: yearly := sum"
FanIn(plans, nextId, owner, key) ==
    LET all_monthly == AllMonthly(plans, owner, key)
    IN IF Cardinality(all_monthly) = MonthsPerYear
       THEN Upsert(plans, nextId, owner, key, NULL, SumAmounts(all_monthly))
       ELSE [plans |-> plans, nextId |-> nextId, id |-> 0]

create_budget_alwaysPopulates(plans, nextId, owner, key, month, amount, auto_populate) ==
    LET u == Upsert(plans, nextId, owner, key, month, amount)
    IN IF month = NULL
       THEN LET f == FanOut(u.plans, u.nextId, owner, key, Div12(amount), 1)
            IN [plans |-> f.plans, nextId |-> f.nextId, id |-> u.id]
       ELSE LET f == FanIn(u.plans, u.nextId, owner, key)
            IN [plans |-> f.plans, nextId |-> f.nextId, id |-> u.id]

\* create_budget(budget, auto_populate) for current_user
create_budget(plans, nextId, owner, key, month, amount, auto_populate) ==
    LET u == Upsert(plans, nextId, owner, key, month, amount)
    IN IF ~auto_populate THEN u
       ELSE IF month = NULL
       THEN LET f == FanOut(u.plans, u.nextId, owner, key, Div12(amount), 1)
            IN [plans |-> f.plans, nextId |-> f.nextId, id |-> u.id]
       ELSE LET f == FanIn(u.plans, u.nextId, owner, key)
            IN [plans |-> f.plans, nextId |-> f.nextId, id |-> u.id]

(***************************************************************************)
(* get_dashboard_summary: the budgets of a month or of the full year       *)
(***************************************************************************)

\* the orders in which a query without ORDER BY may return a set of rows
RECURSIVE Orders(_)
Orders(rows) ==
    IF rows = {} THEN {<< >>}
    ELSE UNION {{<<b>> \o t : t \in Orders(rows \ {b})} : b \in rows}

\* budgets[key] after the loop over the rows of a single-month query, in
\* twelfths of a cent: a yearly row stores amount / 12, a monthly row its
\* amount
RECURSIVE MonthLoop(_, _)
MonthLoop(order, budgets) ==
    IF order = << >> THEN budgets
    ELSE LET b == Head(order)
             v == IF b.month = NULL THEN b.amount ELSE MonthsPerYear * b.amount
         IN MonthLoop(Tail(order),
                      [k \in DOMAIN budgets \cup {b.key} |->
                          IF k = b.key THEN v ELSE budgets[k]])

MonthQuery(plans, owner, month) ==
    {b \in plans : b.user_id = owner /\ (b.month = month \/ b.month = NULL)}

YearBudgets_monthlyFirst(plans, owner) ==
    LET all_budgets == {b \in plans : b.user_id = owner}
        yearly_keys == {b.key : b \in {x \in all_budgets : x.month = NULL}}
        monthly_keys == {b.key : b \in {x \in all_budgets : x.month # NULL}}
    IN [k \in yearly_keys \cup monthly_keys |->
           IF k \in monthly_keys
           THEN SumAmounts({b \in all_budgets : b.key = k /\ b.month # NULL})
           ELSE (CHOOSE b \in all_budgets : b.key = k /\ b.month = NULL).amount]

\* the full-year branch, in cents: the yearly amount if a yearly row exists,
\* else the sum of the monthly rows
YearBudgets(plans, owner) ==
    LET all_budgets == {b \in plans : b.user_id = owner}
        yearly_keys == {b.key : b \in {x \in all_budgets : x.month = NULL}}
        monthly_keys == {b.key : b \in {x \in all_budgets : x.month # NULL}}
    IN [k \in yearly_keys \cup monthly_keys |->
           IF k \in yearly_keys
           THEN (CHOOSE b \in all_budgets : b.key = k /\ b.month = NULL).amount
           ELSE SumAmounts({b \in all_budgets : b.key = k /\ b.month # NULL})]

\* budgets.get((type, category), 0.0)
BudgetGet(budgets, key) == IF key \in DOMAIN budgets THEN budgets[key] ELSE 0

(***************************************************************************)
(* Actions of the budget specification                                     *)
(***************************************************************************)
BudgetOwners == {1}
AutoInputs == {TRUE}

CreateBudget(owner, key, month, amount, auto_populate) ==
    LET r == create_budget(budget_plans, nextBudgetId, owner, key,
                           month, amount, auto_populate)
    IN /\ r.nextId <= MaxBudgetId + 1
       /\ budget_plans' = r.plans
       /\ nextBudgetId' = r.nextId
       /\ last' = [NoLast EXCEPT !.op = "create_budget", !.owner = owner,
                      !.key = key, !.month = month, !.amount = amount,
                      !.auto = auto_populate, !.id = r.id]
       /\ UNCHANGED <<ingestVars, rulesVars, flightVars>>

\* delete_budget(budget_id) for current_user; 404 when the user has no such row
DeleteBudget(owner, budget_id) ==
    LET rows == {b \in budget_plans : b.id = budget_id /\ b.user_id = owner}
    IN /\ budget_plans' = budget_plans \ rows
       /\ last' = [NoLast EXCEPT !.op = "delete_budget", !.owner = owner,
                      !.id = budget_id, !.raised = (rows = {})]
       /\ UNCHANGED <<nextBudgetId, ingestVars, rulesVars, flightVars>>

\* get_dashboard_summary(year, month): "if month:" takes the single-month
\* branch, month = None (or 0) the full-year branch
GetDashboardSummary(owner, month, order) ==
    /\ last' = [NoLast EXCEPT !.op = "summary", !.owner = owner, !.month = month,
                   !.order = order,
                   !.result = IF month # NULL
                              THEN MonthLoop(order, << >>)
                              ELSE YearBudgets(budget_plans, owner)]
    /\ UNCHANGED <<ingestVars, budgetVars, rulesVars, flightVars>>

InitBudget ==
    /\ transactions = {}
    /\ processed_files = {}
    /\ categories = {}
    /\ fileRows = [f \in FileNames |-> << >>]
    /\ sess = NoSess
    /\ ingested = {}
    /\ budget_plans = {}
    /\ nextBudgetId = 1
    /\ rules = {}
    /\ nextRuleId = 1
    /\ cache = NoCache
    /\ inflight = NoFlight
    /\ now = 1
    /\ last = NoLast

NextBudget ==
    \/ \E o \in BudgetOwners, k \in BudgetKeys, m \in MonthInputs, auto \in AutoInputs :
          \E a \in (IF m = NULL THEN YearlyAmounts ELSE MonthlyAmounts) :
              CreateBudget(o, k, m, a, auto)
    \/ \E o \in BudgetOwners, b \in budget_plans :
          b.month \in MonthInputs /\ DeleteBudget(o, b.id)
    \/ \E o \in BudgetOwners, m \in MonthInputs \ {MonthsPerYear + 1} :
          \E order \in (IF m = NULL THEN {<< >>}
                        ELSE Orders(MonthQuery(budget_plans, o, m))) :
              GetDashboardSummary(o, m, order)

SpecBudget == InitBudget /\ [][NextBudget]_vars

(***************************************************************************)
(* Properties of ingestion and load                                        *)
(***************************************************************************)

\* C1: once ingestion has processed a file, running it again on that file
\* with force=false neither extracts the file nor adds a row, and running it
\* again with force=true extracts it again and adds no row.
C1_RerunIsIdempotent ==
    [][\A f \in FileNames :
          (/\ f \in ingested
           /\ last'.op \in {"process_files", "run"}
           /\ ~last'.raised
           /\ f \in last'.files)
          => /\ transactions' = transactions
             /\ ~last'.force => f \notin last'.extracted
             /\ (last'.force /\ last'.files = {f}) => f \in last'.extracted]_vars

C3_LoadInsertsAbsent ==
    [][(/\ last'.op = "load"
        /\ \A i \in 1..Len(last'.batch) : last'.batch[i].ok)
       => LET fps == {last'.batch[i].transaction_hash : i \in 1..Len(last'.batch)}
          IN /\ ~last'.raised
             /\ fps \subseteq ExistingHashes(transactions')
             /\ last'.stats.inserted = Cardinality(fps \ ExistingHashes(transactions))
             /\ last'.stats.total = last'.stats.inserted + last'.stats.skipped]_vars


(***************************************************************************)
(* Properties of budget reconciliation and resolution                      *)
(***************************************************************************)
YearMonths == 1..MonthsPerYear

\* the entries of the months of the year, and the yearly entries, of a key
MonthEntries(plans, owner, key) ==
    {b \in BudgetsOf(plans, owner, key) : b.month \in YearMonths}

YearEntries(plans, owner, key) == BudgetRows(plans, owner, key, NULL)

AllMonthsExist(plans, owner, key) ==
    \A m \in YearMonths : BudgetRows(plans, owner, key, m) # {}

\* x is the twelfth of amount, to the nearest cent
IsTwelfth(x, amount) ==
    (MonthsPerYear * x - amount) \in (1 - MonthsPerYear \div 2)..(MonthsPerYear \div 2)

C5_FanInIffComplete ==
    [][(last'.op = "create_budget" /\ last'.month # NULL /\ last'.auto)
       => LET o == last'.owner
              k == last'.key
          IN IF AllMonthsExist(budget_plans', o, k)
             THEN \E y \in YearEntries(budget_plans', o, k) :
                      y.amount = SumAmounts(MonthEntries(budget_plans', o, k))
             ELSE YearEntries(budget_plans', o, k) = YearEntries(budget_plans, o, k)]_vars

\* C6: whenever a key has a yearly entry and entries for all 12 months, the
\* yearly amount is the sum of the 12 monthly amounts, exactly when the
\* yearly amount divides by 12 and else up to the rounding of the split.
C6_YearlyIsSum ==
    \A o \in BudgetOwners, k \in BudgetKeys :
        AllMonthsExist(budget_plans, o, k) =>
            \A y \in YearEntries(budget_plans, o, k) :
                LET total == SumAmounts(MonthEntries(budget_plans, o, k))
                IN \/ y.amount = total
                   \/ /\ y.amount % MonthsPerYear # 0
                      /\ \A b \in MonthEntries(budget_plans, o, k) :
                             IsTwelfth(b.amount, y.amount)

\* C7: a single-month query resolves each key to the month's entry if there
\* is one, else to the yearly entry divided by 12, else to zero, whatever
\* the order of the rows (values in twelfths of a cent).
C7_MonthlyWins ==
    (last.op = "summary" /\ last.month # NULL) =>
        \A k \in BudgetKeys :
            LET mon == BudgetRows(budget_plans, last.owner, k, last.month)
                yr  == YearEntries(budget_plans, last.owner, k)
            IN BudgetGet(last.result, k) =
                   IF mon # {} THEN MonthsPerYear * FirstOf(mon).amount
                   ELSE IF yr # {} THEN FirstOf(yr).amount
                   ELSE 0

\* C8: a full-year query resolves each key to the yearly entry if there is
\* one, else to the sum of the monthly entries that exist, and has no entry
\* for a key with neither.
C8_YearlyWins ==
    (last.op = "summary" /\ last.month = NULL) =>
        \A k \in BudgetKeys :
            LET yr  == YearEntries(budget_plans, last.owner, k)
                mon == AllMonthly(budget_plans, last.owner, k)
            IN IF yr # {} THEN /\ k \in DOMAIN last.result
                               /\ last.result[k] = FirstOf(yr).amount
               ELSE IF mon # {} THEN /\ k \in DOMAIN last.result
                                     /\ last.result[k] = SumAmounts(mon)
               ELSE k \notin DOMAIN last.result

\* a full-year query over a key whose yearly entry differs from the sum of
\* its monthly entries
C8_Witness ==
    /\ last.op = "summary" /\ last.month = NULL
    /\ \E k \in BudgetKeys :
           \E y \in YearEntries(budget_plans, last.owner, k) :
               /\ AllMonthly(budget_plans, last.owner, k) # {}
               /\ y.amount # SumAmounts(AllMonthly(budget_plans, last.owner, k))
               /\ last.result[k] = y.amount

(***************************************************************************)
(* Categorization rules: the rules API and the transformer's rule pass     *)
(***************************************************************************)
CacheWindow == 60
MaxTime == 61

\* the ids the store hands out before the model stops creating rules
RuleIds == {1, 2}

\* the clock advances by half the cache window
TickSteps == {30}

\* amount_operator / amount_value of a rule without them (None)
NoOperator == "None"
NoAmount == -1
AmountOperators == {"eq", "gte", "lte", "gt", "lt"}

\* descriptions and patterns are strings over three characters
LowerChar(c) == IF c = "A" THEN "a" ELSE c
Lower(str) == [i \in 1..Len(str) |-> LowerChar(str[i])]

\* pattern in description
IsSubstring(pattern, description) ==
    \E i \in 0..(Len(description) - Len(pattern)) :
        \A j \in 1..Len(pattern) : description[i + j] = pattern[j]

Descriptions == {<< >>, <<"a">>, <<"A", "b">>}
Magnitudes == {15, 20, 25}
Thresholds == {20}

\* the transactions classified: any description with one magnitude, and
\* one description with any magnitude
Calls ==
    {<<d, 15>> : d \in Descriptions} \cup {<<(<<"a">>), m>> : m \in Magnitudes}

\* the bodies of the rules a client posts
PlainRule(pattern, case_sensitive, category, priority) ==
    [pattern |-> pattern, case_sensitive |-> case_sensitive,
     amount_operator |-> NoOperator, amount_value |-> NoAmount,
     type |-> "Expenses", category |-> category, priority |-> priority]

AmountRule(pattern, operator, value) ==
    [pattern |-> pattern, case_sensitive |-> FALSE,
     amount_operator |-> operator, amount_value |-> value,
     type |-> "Expenses", category |-> "Streaming", priority |-> 1]

RuleInputs ==
    {PlainRule(<<"a">>, FALSE, c, p) : c \in {"Streaming", "Leisure"}, p \in {0, 1}}
    \cup {PlainRule(<<"A">>, TRUE, "Leisure", 1), PlainRule(<< >>, FALSE, "Leisure", 0)}

AmountInputs ==
    {AmountRule(<<"a">>, op, t) : op \in AmountOperators, t \in Thresholds}
    \cup {AmountRule(<<"a">>, "lt", NoAmount)}
    \cup {AmountRule(<<"a">>, NoOperator, t) : t \in Thresholds}
    \cup {AmountRule(<< >>, "lt", t) : t \in Thresholds}

\* the bodies of the updates a client sends: the fields that are not None
RuleUpdates == {[is_active |-> FALSE], [priority |-> 1]}

ActiveRules_all(rows) == rows

\* filter(CategorizationRule.is_active.is_(True))
ActiveRules(rows) == {r \in rows : r.is_active}

OrderBy_createdAsc(a, b) ==
    \/ a.priority > b.priority
    \/ a.priority = b.priority /\ a.created_at <= b.created_at

\* order_by(priority.desc(), created_at.desc()): a may come before b
OrderBy(a, b) ==
    \/ a.priority > b.priority
    \/ a.priority = b.priority /\ a.created_at >= b.created_at

\* the orders the query may return the rows in
SortedOrders(rows) ==
    {o \in Orders(rows) : \A i, j \in 1..Len(o) : i < j => OrderBy(o[i], o[j])}

CacheIsFresh_inclusive(c, t) == c.filled /\ c.time # NULL /\ t - c.time <= CacheWindow

\* "self._rules_cache is not None and self._rules_cache_time" and
\* "time.time() - self._rules_cache_time < 60"
CacheIsFresh(c, t) == c.filled /\ c.time # NULL /\ t - c.time < CacheWindow

get_active_rules_staleOnFailure(c, t, raises, order) ==
    IF CacheIsFresh(c, t) THEN [rules |-> c.rules, cache |-> c, raised |-> FALSE]
    ELSE IF raises THEN [rules |-> c.rules, cache |-> c, raised |-> TRUE]
    ELSE [rules |-> order, cache |-> [rules |-> order, time |-> t, filled |-> TRUE],
          raised |-> FALSE]

\* _get_active_rules at time t: the list it returns and the cache it leaves
get_active_rules(c, t, raises, order) ==
    IF CacheIsFresh(c, t) THEN [rules |-> c.rules, cache |-> c, raised |-> FALSE]
    ELSE IF raises THEN [rules |-> << >>, cache |-> c, raised |-> TRUE]
    ELSE [rules |-> order, cache |-> [rules |-> order, time |-> t, filled |-> TRUE],
          raised |-> FALSE]

AmountSkips_gtInclusive(rule, amount) ==
    /\ rule.amount_operator # NoOperator
    /\ rule.amount_value # NoAmount
    /\ \/ rule.amount_operator = "eq" /\ amount # rule.amount_value
       \/ rule.amount_operator = "gte" /\ amount < rule.amount_value
       \/ rule.amount_operator = "lte" /\ amount > rule.amount_value
       \/ rule.amount_operator = "gt" /\ amount < rule.amount_value
       \/ rule.amount_operator = "lt" /\ amount >= rule.amount_value

\* the amount condition of a rule sends the loop to the next rule
AmountSkips(rule, amount) ==
    /\ rule.amount_operator # NoOperator
    /\ rule.amount_value # NoAmount
    /\ \/ rule.amount_operator = "eq" /\ amount # rule.amount_value
       \/ rule.amount_operator = "gte" /\ amount < rule.amount_value
       \/ rule.amount_operator = "lte" /\ amount > rule.amount_value
       \/ rule.amount_operator = "gt" /\ amount <= rule.amount_value
       \/ rule.amount_operator = "lt" /\ amount >= rule.amount_value

\* "for rule in rules": << >> is None
RECURSIVE RuleLoop(_, _, _)
RuleLoop(rs, description, amount) ==
    IF rs = << >> THEN << >>
    ELSE LET rule == Head(rs)
             desc_to_check == IF rule.case_sensitive THEN description
                              ELSE Lower(description)
             pattern_to_check == IF rule.case_sensitive THEN rule.pattern
                                 ELSE Lower(rule.pattern)
         IN IF ~IsSubstring(pattern_to_check, desc_to_check)
            THEN RuleLoop(Tail(rs), description, amount)
            ELSE IF AmountSkips(rule, amount)
            THEN RuleLoop(Tail(rs), description, amount)
            ELSE <<rule.type, rule.category>>

check_custom_rules(c, t, raises, order, description, amount) ==
    IF description = << >>
    THEN [result |-> << >>, cache |-> c, raised |-> FALSE]
    ELSE LET g == get_active_rules(c, t, raises, order)
         IN [result |-> RuleLoop(g.rules, description, amount),
             cache |-> g.cache, raised |-> g.raised]

\* the row create_rule adds for a request body, at time t
NewRule(rule_id, rule_data, t) ==
    [id |-> rule_id, pattern |-> rule_data.pattern,
     case_sensitive |-> rule_data.case_sensitive,
     amount_operator |-> rule_data.amount_operator,
     amount_value |-> rule_data.amount_value,
     type |-> rule_data.type, category |-> rule_data.category,
     priority |-> rule_data.priority, is_active |-> TRUE,
     user_id |-> NULL, created_at |-> t]

CreateRule(rule_data) ==
    /\ nextRuleId \in RuleIds
    /\ rules' = rules \cup {NewRule(nextRuleId, rule_data, now)}
    /\ nextRuleId' = nextRuleId + 1
    /\ last' = [NoLast EXCEPT !.op = "create_rule", !.id = nextRuleId]
    /\ UNCHANGED <<ingestVars, budgetVars, flightVars, cache, now>>

UpdateRule(rule_id, rule_data) ==
    LET found == {r \in rules : r.id = rule_id}
    IN /\ rules' = {IF r \in found
                    THEN [f \in DOMAIN r |-> IF f \in DOMAIN rule_data
                                             THEN rule_data[f] ELSE r[f]]
                    ELSE r : r \in rules}
       /\ last' = [NoLast EXCEPT !.op = "update_rule", !.id = rule_id,
                                 !.raised = (found = {})]
       /\ UNCHANGED <<ingestVars, budgetVars, flightVars, nextRuleId, cache, now>>

DeleteRule(rule_id) ==
    LET found == {r \in rules : r.id = rule_id}
    IN /\ rules' = rules \ found
       /\ last' = [NoLast EXCEPT !.op = "delete_rule", !.id = rule_id,
                                 !.raised = (found = {})]
       /\ UNCHANGED <<ingestVars, budgetVars, flightVars, nextRuleId, cache, now>>

\* one call of _check_custom_rules by the transformer
CheckCustomRules(description, amount, raises, order) ==
    LET r == check_custom_rules(cache, now, raises, order, description, amount)
    IN /\ cache' = r.cache
       /\ last' = [NoLast EXCEPT !.op = "classify", !.description = description,
                                 !.amount = amount, !.raised = r.raised,
                                 !.result = r.result]
       /\ UNCHANGED <<ingestVars, budgetVars, flightVars, rules, nextRuleId, now>>

\* TransactionTransformer(...): a new transformer has no cached rules
NewTransformer ==
    /\ cache # NoCache
    /\ cache' = NoCache
    /\ last' = [NoLast EXCEPT !.op = "new_transformer"]
    /\ UNCHANGED <<ingestVars, budgetVars, flightVars, rules, nextRuleId, now>>

Tick(step) ==
    /\ now + step <= MaxTime
    /\ now' = now + step
    /\ last' = [NoLast EXCEPT !.op = "tick"]
    /\ UNCHANGED <<ingestVars, budgetVars, flightVars, rules, nextRuleId, cache>>

InitRules ==
    /\ transactions = {}
    /\ processed_files = {}
    /\ categories = {}
    /\ fileRows = [f \in FileNames |-> << >>]
    /\ sess = NoSess
    /\ ingested = {}
    /\ budget_plans = {}
    /\ nextBudgetId = 1
    /\ rules = {}
    /\ nextRuleId = 1
    /\ cache = NoCache
    /\ inflight = NoFlight
    /\ now = 1
    /\ last = NoLast

NextRules ==
    \/ \E rule_data \in RuleInputs : CreateRule(rule_data)
    \/ \E rule_id \in RuleIds, rule_data \in RuleUpdates :
          UpdateRule(rule_id, rule_data)
    \/ \E rule_id \in RuleIds : DeleteRule(rule_id)
    \/ \E description \in Descriptions, raises \in BOOLEAN :
          \E order \in SortedOrders(ActiveRules(rules)) :
              CheckCustomRules(description, 15, raises, order)
    \/ NewTransformer
    \/ \E step \in TickSteps : Tick(step)

SpecRules == InitRules /\ [][NextRules]_vars

\* a store that holds a rule with an amount condition, created first, and
\* possibly a second rule without one
InitAmount ==
    /\ transactions = {}
    /\ processed_files = {}
    /\ categories = {}
    /\ fileRows = [f \in FileNames |-> << >>]
    /\ sess = NoSess
    /\ ingested = {}
    /\ budget_plans = {}
    /\ nextBudgetId = 1
    /\ \E first \in AmountInputs :
           rules \in {{NewRule(1, first, 1)}}
                     \cup {{NewRule(1, first, 1), NewRule(2, second, 1)} :
                              second \in {PlainRule(<<"a">>, FALSE, "Leisure", 0),
                                          PlainRule(<<"a">>, FALSE, "Leisure", 1)}}
    /\ nextRuleId = 3
    /\ cache = NoCache
    /\ inflight = NoFlight
    /\ now = 1
    /\ last = NoLast

NextAmount ==
    \/ \E call \in Calls, raises \in BOOLEAN :
          \E order \in SortedOrders(ActiveRules(rules)) :
              CheckCustomRules(call[1], call[2], raises, order)
    \/ \E rule_id \in RuleIds, rule_data \in RuleUpdates :
          UpdateRule(rule_id, rule_data)
    \/ NewTransformer
    \/ \E step \in TickSteps : Tick(step)

SpecAmount == InitAmount /\ [][NextAmount]_vars

(***************************************************************************)
(* Properties of the rule pass                                             *)
(***************************************************************************)
\* the comparison an amount predicate (op, threshold) makes
Holds(op, magnitude, threshold) ==
    CASE op = "eq"  -> magnitude = threshold
      [] op = "gte" -> magnitude >= threshold
      [] op = "lte" -> magnitude <= threshold
      [] op = "gt"  -> magnitude > threshold
      [] op = "lt"  -> magnitude < threshold
      [] OTHER      -> TRUE

HasPredicate(rule) ==
    rule.amount_operator # NoOperator /\ rule.amount_value # NoAmount

PatternIn(rule, description) ==
    IF rule.case_sensitive THEN IsSubstring(rule.pattern, description)
    ELSE IsSubstring(Lower(rule.pattern), Lower(description))

\* a rule matches a transaction: pattern and, if set, amount predicate
Matches(rule, description, magnitude) ==
    /\ PatternIn(rule, description)
    /\ HasPredicate(rule) =>
           Holds(rule.amount_operator, magnitude, rule.amount_value)

\* the active rules a classification call that has just returned worked
\* with: the cached list while it is fresh, else the rows of the store, and
\* none if loading them failed
RulesInView ==
    IF last.raised THEN << >>
    ELSE IF CacheIsFresh(cache, now) THEN cache.rules
    ELSE CHOOSE o \in SortedOrders(ActiveRules(rules)) : TRUE

Matching == {r \in SetOfSeq(RulesInView) : Matches(r, last.description, last.amount)}

\* r wins over q: higher priority, or equal priority and not created earlier
Outranks(r, q) ==
    \/ r.priority > q.priority
    \/ r.priority = q.priority /\ r.created_at >= q.created_at

TopRuleWins ==
    IF Matching = {} THEN last.result = << >>
    ELSE \E r \in Matching : /\ last.result = <<r.type, r.category>>
                             /\ \A q \in Matching : Outranks(r, q)

FirstMatch(rs) ==
    LET hits == {i \in 1..Len(rs) : Matches(rs[i], last.description, last.amount)}
    IN IF hits = {} THEN << >>
       ELSE LET i == CHOOSE k \in hits : \A h \in hits : k <= h
            IN <<rs[i].type, rs[i].category>>

LowerWord(w) == IF w = "Coop" THEN "coop" ELSE IF w = "Loyer" THEN "loyer" ELSE w
LowerWords(field) == [i \in 1..Len(field) |-> LowerWord(field[i])]

categorize_ubs_income(desc1, desc2, desc3) ==
    IF IsSubstring(<<"webloyalty", "sarl">>, desc1) /\ IsSubstring(<<"salaire">>, desc3)
    THEN "Employment"
    ELSE IF IsSubstring(<<"credit", "ubs", "twint">>, desc2)
    THEN "Extras / Twint Chargeback"
    ELSE IF \E x \in {<<"etat", "de", "vaud">>, <<"civil", "et", "mil">>} :
                IsSubstring(x, desc1)
    THEN "Side Hustle"
    ELSE IF IsSubstring(<<"loyer">>, LowerWords(desc3))
    THEN "Side Hustle"
    ELSE "Side Hustle"

categorize_ubs_expense(desc1, desc2, desc3) ==
    IF IsSubstring(<<"ubs", "card", "center", "ag">>, desc1)
       \/ IsSubstring(<<"card", "center">>, desc1)
    THEN <<"CC_Refund", "Card Refund Luca">>
    ELSE IF IsSubstring(<<"sbb", "mobile">>, desc1) \/ IsSubstring(<<"sbb">>, desc1)
    THEN <<"Expenses", "Train">>
    ELSE IF IsSubstring(<<"pilet", "+", "renaud">>, desc1)
    THEN <<"Expenses", "Housing">>
    ELSE IF IsSubstring(<<"assura">>, desc1)
    THEN <<"Expenses", "Health Insurance">>
    ELSE IF IsSubstring(<<"swisscom">>, desc1)
    THEN <<"Expenses", "Internet + Mobile">>
    ELSE IF \E x \in {<<"coop">>, <<"migros">>} : IsSubstring(x, desc1)
    THEN IF IsSubstring(<<"pronto">>, desc1)
            /\ \E x \in {<<"tankstelle">>, <<"gasoline">>} : IsSubstring(x, desc1)
         THEN <<"Expenses", "Car">>
         ELSE <<"Expenses", "Groceries">>
    ELSE IF IsSubstring(<<"services", "industriels">>, desc1)
    THEN <<"Expenses", "Home Utils">>
    ELSE IF IsSubstring(<<"bancomat">>, desc2) \/ IsSubstring(<<"withdrawal">>, desc2)
    THEN <<"Expenses", "Withdraw">>
    ELSE IF IsSubstring(<<"balance", "closing">>, desc1)
            \/ IsSubstring(<<"service", "prices">>, desc1)
    THEN <<"Expenses", "CC fees">>
    ELSE IF IsSubstring(<<"debit", "ubs", "twint">>, desc2)
    THEN <<"Expenses", "Extras">>
    ELSE <<"No-Label", "Uncategorized">>

\* CategoryConfig.cc_sector_patterns, in the order of the dict
cc_sector_patterns ==
    << <<(<<"grocery", "stores">>), "Groceries">>,
       <<(<<"restaurants">>), "Restaurants">>,
       <<(<<"bakeries">>), "Restaurants">>,
       <<(<<"fast-food", "restaurants">>), "Restaurants">>,
       <<(<<"fast", "food", "restaurant">>), "Restaurants">>,
       <<(<<"gasoline", "service", "stations">>), "Car">>,
       <<(<<"pharmacies">>), "Health Other">>,
       <<(<<"digital", "goods">>), "Digital Goods">>,
       <<(<<"computer", "software", "stores">>), "Digital Goods">>,
       <<(<<"department", "stores">>), "Extras">>,
       <<(<<"electronics", "stores">>), "Digital Goods">>,
       <<(<<"book", "stores">>), "Extras">>,
       <<(<<"barber", "or", "beauty", "shops">>), "Wellbeing">>,
       <<(<<"recreation", "services">>), "Sport">>,
       <<(<<"taxicabs">>), "Restaurants">>,
       <<(<<"package", "stores">>), "Extras">>,
       <<(<<"retail", "business">>), "Extras">> >>

categorize_cc_expense(sector, booking_text) ==
    LET hits == {i \in 1..Len(cc_sector_patterns) :
                     IsSubstring(cc_sector_patterns[i][1], sector)}
    IN IF hits # {}
       THEN <<"Expenses", cc_sector_patterns[CHOOSE i \in hits : \A j \in hits : i <= j][2]>>
       ELSE IF sector = << >>
               /\ (IsSubstring(<<"interets">>, booking_text)
                   \/ IsSubstring(<<"interest">>, booking_text))
       THEN <<"Expenses", "CC fees">>
       ELSE <<"No-Label", "Uncategorized">>

\* what the built-in heuristics give a raw row
heuristics(raw) ==
    IF raw.source = "UBS"
    THEN LET desc1 == LowerWords(raw.description1)
             desc2 == LowerWords(raw.description2)
             desc3 == LowerWords(raw.description3)
         IN IF raw.is_credit
            THEN <<"Income", categorize_ubs_income(desc1, desc2, desc3)>>
            ELSE categorize_ubs_expense(desc1, desc2, desc3)
    ELSE IF raw.is_credit THEN <<"CC_Refund", "Card Refund Luca">>
    ELSE categorize_cc_expense(LowerWords(raw.sector), LowerWords(raw.booking_text))

transform_row_heuristicsFirst(c, t, raises, order, raw) ==
    LET m == check_custom_rules(c, t, raises, order, raw.description, raw.amount)
    IN [result |-> IF heuristics(raw) # <<"No-Label", "Uncategorized">>
                   THEN heuristics(raw)
                   ELSE IF m.result # << >> THEN m.result ELSE heuristics(raw),
        cache |-> m.cache, raised |-> m.raised]

\* _transform_ubs / _transform_cc: the (type, category) of the result
transform_row(c, t, raises, order, raw) ==
    LET m == check_custom_rules(c, t, raises, order, raw.description, raw.amount)
    IN [result |-> IF m.result # << >> THEN m.result ELSE heuristics(raw),
        cache |-> m.cache, raised |-> m.raised]

UbsRow(description, amount, is_credit, d1, d2, d3) ==
    [source |-> "UBS", description |-> description, amount |-> amount,
     is_credit |-> is_credit, description1 |-> d1, description2 |-> d2,
     description3 |-> d3, sector |-> << >>, booking_text |-> << >>]

CcRow(description, amount, is_credit, sector, booking_text) ==
    [source |-> "CC", description |-> description, amount |-> amount,
     is_credit |-> is_credit, description1 |-> << >>, description2 |-> << >>,
     description3 |-> << >>, sector |-> sector, booking_text |-> booking_text]

\* the raw rows classified
RawRows ==
    {UbsRow(d, 15, FALSE, d1, << >>, << >>) :
        d \in {<< >>, <<"a">>},
        d1 \in {<<"Coop", "pronto", "tankstelle">>, <<"sbb", "mobile">>, <<"kiosk">>}}
    \cup {UbsRow(<<"a">>, 25, FALSE, <<"kiosk">>, <<"bancomat">>, << >>),
          UbsRow(<<"a">>, 15, TRUE, <<"webloyalty", "sarl">>, << >>, <<"salaire">>),
          UbsRow(<< >>, 15, TRUE, <<"kiosk">>, << >>, <<"Loyer">>)}
    \cup {CcRow(d, 15, FALSE, sec, << >>) :
            d \in {<< >>, <<"a">>},
            sec \in {<<"fast-food", "restaurants">>, <<"casinos">>}}
    \cup {CcRow(<<"a">>, 25, FALSE, << >>, <<"interest">>),
          CcRow(<<"a">>, 15, TRUE, << >>, << >>)}

\* one call of _transform_ubs or _transform_cc by the transformer
TransformRow(raw, raises, order) ==
    LET r == transform_row(cache, now, raises, order, raw)
    IN /\ cache' = r.cache
       /\ last' = [NoLast EXCEPT !.op = "transform", !.description = raw.description,
                                 !.amount = raw.amount, !.raised = r.raised,
                                 !.raw = raw, !.result = r.result]
       /\ UNCHANGED <<ingestVars, budgetVars, flightVars, rules, nextRuleId, now>>

\* the rule stores the rows are classified against
ClassifyRuleInputs ==
    {PlainRule(<<"a">>, FALSE, "Leisure", 0), PlainRule(<< >>, FALSE, "Leisure", 0),
     AmountRule(<<"a">>, "lt", 20)}

InitClassify ==
    /\ transactions = {}
    /\ processed_files = {}
    /\ categories = {}
    /\ fileRows = [f \in FileNames |-> << >>]
    /\ sess = NoSess
    /\ ingested = {}
    /\ budget_plans = {}
    /\ nextBudgetId = 1
    /\ \E picked \in SUBSET ClassifyRuleInputs :
           /\ Cardinality(picked) <= 1
           /\ rules = {NewRule(1, rule_data, 1) : rule_data \in picked}
    /\ nextRuleId = 2
    /\ cache = NoCache
    /\ inflight = NoFlight
    /\ now = 1
    /\ last = NoLast

NextClassify ==
    \/ \E raw \in RawRows, raises \in BOOLEAN :
          \E order \in SortedOrders(ActiveRules(rules)) :
              TransformRow(raw, raises, order)
    \/ \E rule_id \in RuleIds, rule_data \in RuleUpdates :
          UpdateRule(rule_id, rule_data)
    \/ NewTransformer
    \/ \E step \in TickSteps : Tick(step)

SpecClassify == InitClassify /\ [][NextClassify]_vars

\* the key words of the heuristics for a debit row
DebitKeywords ==
    {<<"card", "center">>, <<"sbb">>, <<"pilet", "+", "renaud">>, <<"assura">>,
     <<"swisscom">>, <<"coop">>, <<"migros">>, <<"services", "industriels">>,
     <<"bancomat">>, <<"withdrawal">>, <<"balance", "closing">>,
     <<"service", "prices">>, <<"debit", "ubs", "twint">>, <<"interets">>,
     <<"interest">>}
    \cup {cc_sector_patterns[i][1] : i \in 1..Len(cc_sector_patterns)}

NoHeuristicHit(raw) ==
    \A k \in DebitKeywords, f \in {"description1", "description2", "sector", "booking_text"} :
        ~IsSubstring(k, LowerWords(raw[f]))

RuleThenHeuristics ==
    /\ Matching # {} => \E r \in Matching : last.result = <<r.type, r.category>>
    /\ Matching = {} =>
          /\ last.result = heuristics(last.raw)
          /\ (~last.raw.is_credit /\ NoHeuristicHit(last.raw))
                 => last.result = <<"No-Label", "Uncategorized">>

HasMatch(rs, description, magnitude) ==
    \E i \in 1..Len(rs) : Matches(rs[i], description, magnitude)

FirstMatchRule(rs, description, magnitude) ==
    rs[CHOOSE i \in 1..Len(rs) :
          /\ Matches(rs[i], description, magnitude)
          /\ \A j \in 1..(i - 1) : ~Matches(rs[j], description, magnitude)]

\* C12 (as stated): the rule that determines the result of a classification
\* call is not inactive in the store at the time of the call.
C12_InactiveNeverDecides ==
    (last.op = "classify" /\ last.result # << >>) =>
        LET d == FirstMatchRule(cache.rules, last.description, last.amount)
        IN \A r \in rules : r.id = d.id => r.is_active

\* C12 (amended): the rule that determines the result was active in the
\* store when the transformer loaded its rule list: in this call, or in a
\* call less than 60 seconds earlier whose list the cache still holds.
C12_InactiveNeverLoaded ==
    [][(last'.op = "classify" /\ last'.result # << >>) =>
          LET d == FirstMatchRule(cache'.rules, last'.description, last'.amount)
          IN /\ d.is_active
             /\ IF CacheIsFresh(cache, now)
                THEN /\ cache' = cache
                     /\ now - cache.time < CacheWindow
                ELSE d \in rules]_vars

\* a call has loaded the list and returned the label of a rule although an
\* inactive rule of the store matches the transaction and outranks it
C12_Witness ==
    /\ last.op = "classify" /\ last.result # << >>
    /\ cache.time = now
    /\ LET d == FirstMatchRule(cache.rules, last.description, last.amount)
       IN \E r \in rules :
              /\ ~r.is_active
              /\ Matches(r, last.description, last.amount)
              /\ r.priority > d.priority
              /\ r.category # d.category
              /\ d \in rules

(***************************************************************************)
(* TransactionValidator and the steps of a file after transform            *)
(***************************************************************************)
\* CategoryConfig.valid_types
valid_types == {"Income", "Expenses", "Savings", "CC_Refund", "No-Label"}

NoError == ""

validate_single_dateUnchecked(trans, t) ==
    IF trans.type \notin valid_types THEN "Invalid transaction type"
    ELSE IF trans.amount <= 0 THEN "Amount must be positive"
    ELSE NoError

\* _validate_single at time t: the error message, or none
validate_single(trans, t) ==
    IF trans.type \notin valid_types THEN "Invalid transaction type"
    ELSE IF trans.amount <= 0 THEN "Amount must be positive"
    ELSE IF trans.date > t THEN "Date is in the future"
    ELSE NoError

\* validate: the loop over the transactions
RECURSIVE validate(_, _, _)
validate(todo, t, acc) ==
    IF todo = << >> THEN acc
    ELSE LET trans == Head(todo)
             error == validate_single(trans, t)
         IN IF error # NoError
            THEN validate(Tail(todo), t,
                          [acc EXCEPT !.errors =
                               Append(@, [transaction |-> trans, error |-> error])])
            ELSE validate(Tail(todo), t, [acc EXCEPT !.valid = Append(@, trans)])

\* the classified transactions a file gives
Classified ==
    [transaction_hash : {1}, category : {"Groceries"}, ok : {TRUE},
     type : {"Expenses", "Unknown"}, amount : {-5, 0, 15}, date : {1, 40}]
    \cup [transaction_hash : Hashes, category : {"Groceries"}, ok : {TRUE},
          type : {"Expenses"}, amount : {15}, date : {1}]

ClassifiedBatches == SeqsUpTo(Classified, 2)

\* _process_ubs_file / _process_cc_file after transform: validate, load,
\* mark_processed; an exception of load leaves the method before the mark
ProcessTransformed(filename, transformed) ==
    LET v  == validate(transformed, now, [valid |-> << >>, errors |-> << >>])
        ld == LoadOwn(transactions, v.valid)
    IN /\ transactions' = ld.rows
       /\ processed_files' =
              IF ld.raised THEN processed_files
              ELSE mark_processed(processed_files, filename,
                                  identify_file_type(filename), Len(v.valid))
       /\ last' = [NoLast EXCEPT !.op = "process_transformed", !.raised = ld.raised,
                                 !.input = transformed, !.batch = v.valid,
                                 !.errors = v.errors, !.stats = ld.stats]
       /\ UNCHANGED <<categories, fileRows, sess, ingested, budgetVars, rulesVars, flightVars>>

InitValidate ==
    /\ transactions \in {{}, {OldTransaction(1, 1)}}
    /\ processed_files = {}
    /\ categories = {}
    /\ fileRows = [f \in FileNames |-> << >>]
    /\ sess = NoSess
    /\ ingested = {}
    /\ last = NoLast
    /\ InitOther

NextValidate ==
    \/ \E f \in FileNames, transformed \in ClassifiedBatches :
          ProcessTransformed(f, transformed)
    \/ \E step \in TickSteps : Tick(step)

SpecValidate == InitValidate /\ [][NextValidate]_vars

\* a classified transaction the claim calls invalid at time t
Invalid(trans, t) ==
    \/ trans.type \notin valid_types
    \/ trans.amount <= 0
    \/ trans.date > t

\* the reasons that apply to a transaction
Reasons(trans, t) ==
    {r \in {"Invalid transaction type", "Amount must be positive", "Date is in the future"} :
        \/ r = "Invalid transaction type" /\ trans.type \notin valid_types
        \/ r = "Amount must be positive" /\ trans.amount <= 0
        \/ r = "Date is in the future" /\ trans.date > t}

IsInvalidNow(trans) == Invalid(trans, now)
IsValidNow(trans) == ~Invalid(trans, now)

ReqIds == {1, 2}
TxMonths == {NULL, 1, 2}

\* a write a session holds: the UPDATE of a row it read, or an INSERT
UpdateOf(row, amount) == [op |-> "update", id |-> row.id, month |-> row.month,
                          amount |-> amount]
InsertOf(month, amount) == [op |-> "insert", id |-> 0, month |-> month,
                            amount |-> amount]

\* "existing = query.first(); if existing: ... else: session.add(...)"
StageUpsert(plans, owner, key, month, amount) ==
    LET rows == BudgetRows(plans, owner, key, month)
    IN IF rows # {} THEN UpdateOf(FirstOf(rows), amount) ELSE InsertOf(month, amount)

\* UniqueConstraint(user_id, year, month, type, category): rows whose month
\* is NULL are not compared by the index
BudgetUniqueOk(plans, owner, key, month) ==
    month = NULL \/ BudgetRows(plans, owner, key, month) = {}

\* the flush of the writes of a session, in order, and the commit: the
\* first statement that fails raises and nothing is committed
RECURSIVE ApplyWrites(_, _, _, _, _)
ApplyWrites(plans, nextId, owner, key, writes) ==
    IF writes = << >> THEN [ok |-> TRUE, plans |-> plans, nextId |-> nextId]
    ELSE LET w == Head(writes)
         IN IF w.op = "update"
            THEN IF \E b \in plans : b.id = w.id
                 THEN ApplyWrites({IF b.id = w.id THEN [b EXCEPT !.amount = w.amount]
                                   ELSE b : b \in plans},
                                  nextId, owner, key, Tail(writes))
                 ELSE [ok |-> FALSE, plans |-> plans, nextId |-> nextId]
            ELSE IF BudgetUniqueOk(plans, owner, key, w.month)
                 THEN ApplyWrites(InsertBudget(plans, nextId, owner, key, w.month,
                                               w.amount).plans,
                                  nextId + 1, owner, key, Tail(writes))
                 ELSE [ok |-> FALSE, plans |-> plans, nextId |-> nextId]

\* the writes of the second transaction, computed from its snapshot
StageFan(snapshot, owner, key, month, amount) ==
    IF month = NULL
    THEN [m \in 1..MonthsPerYear |-> StageUpsert(snapshot, owner, key, m, Div12(amount))]
    ELSE LET all_monthly == AllMonthly(snapshot, owner, key)
         IN IF Cardinality(all_monthly) = MonthsPerYear
            THEN <<StageUpsert(snapshot, owner, key, NULL, SumAmounts(all_monthly))>>
            ELSE << >>

CommittedOnFailure_autocommit(plans, nextId, owner, key, done) ==
    ApplyWrites(plans, nextId, owner, key, done).plans

\* the committed rows after a transaction failed when the statements "done"
\* had been flushed: get_db rolls the session back
CommittedOnFailure(plans, nextId, owner, key, done) == plans

Idle == [pc |-> "idle"]

\* the request enters create_budget and looks its own entry up
StartBudget(r, owner, key, month, amount) ==
    /\ inflight[r] = Idle
    /\ inflight' = [inflight EXCEPT ![r] =
           [pc |-> "upsert", owner |-> owner, key |-> key, month |-> month,
            amount |-> amount, raised |-> FALSE,
            writes |-> <<StageUpsert(budget_plans, owner, key, month, amount)>>]]
    /\ last' = [NoLast EXCEPT !.op = "start_budget", !.id = r]
    /\ UNCHANGED <<ingestVars, budgetVars, rulesVars>>

\* the first session.commit()
CommitUpsert(r) ==
    LET q == inflight[r]
        a == ApplyWrites(budget_plans, nextBudgetId, q.owner, q.key, q.writes)
    IN /\ q.pc = "upsert"
       /\ budget_plans' = a.plans
       /\ nextBudgetId' = a.nextId
       /\ inflight' = [inflight EXCEPT ![r] =
              [q EXCEPT !.pc = IF a.ok THEN "reconcile" ELSE "done", !.writes = << >>,
                        !.raised = ~a.ok]]
       /\ last' = [NoLast EXCEPT !.op = "commit_upsert", !.id = r, !.raised = ~a.ok,
                                 !.month = q.month, !.amount = q.amount]
       /\ UNCHANGED <<ingestVars, rulesVars>>

\* the queries of the fan-out or fan-in, and the writes they lead to
Reconcile(r) ==
    LET q == inflight[r]
    IN /\ q.pc = "reconcile"
       /\ inflight' = [inflight EXCEPT ![r] =
              [q EXCEPT !.pc = "fan",
                        !.writes = StageFan(budget_plans, q.owner, q.key, q.month,
                                            q.amount)]]
       /\ last' = [NoLast EXCEPT !.op = "reconcile", !.id = r]
       /\ UNCHANGED <<ingestVars, budgetVars, rulesVars>>

\* the second session.commit(); the store may fail after "done" statements
CommitFan(r, done) ==
    LET q == inflight[r]
        a == ApplyWrites(budget_plans, nextBudgetId, q.owner, q.key, q.writes)
        ok == a.ok /\ done = Len(q.writes)
    IN /\ q.pc = "fan"
       /\ done \in 0..Len(q.writes)
       /\ budget_plans' =
              IF ok THEN a.plans
              ELSE CommittedOnFailure(budget_plans, nextBudgetId, q.owner, q.key,
                                      SubSeq(q.writes, 1, done))
       /\ nextBudgetId' = IF ok THEN a.nextId ELSE nextBudgetId
       /\ inflight' = [inflight EXCEPT ![r] = [q EXCEPT !.pc = "done", !.raised = ~ok]]
       /\ last' = [NoLast EXCEPT !.op = "commit_fan", !.id = r, !.raised = ~ok,
                                 !.month = q.month, !.amount = q.amount,
                                 !.key = q.key, !.owner = q.owner]
       /\ UNCHANGED <<ingestVars, rulesVars>>

\* a year of budgets as one yearly request leaves it
FullYear == create_budget({}, 1, 1, "Expenses/Rent", NULL, 1200, TRUE)

InitBudgetTx ==
    /\ transactions = {}
    /\ processed_files = {}
    /\ categories = {}
    /\ fileRows = [f \in FileNames |-> << >>]
    /\ sess = NoSess
    /\ ingested = {}
    /\ \E start \in {[plans |-> {}, nextId |-> 1], FullYear,
                     [FullYear EXCEPT !.plans = {b \in @ : b.month # NULL}]} :
           /\ budget_plans = start.plans
           /\ nextBudgetId = start.nextId
    /\ rules = {}
    /\ nextRuleId = 1
    /\ cache = NoCache
    /\ now = 1
    /\ inflight = [r \in ReqIds |-> Idle]
    /\ last = NoLast

NextBudgetTx ==
    \/ \E r \in ReqIds, o \in BudgetOwners, k \in BudgetKeys, m \in TxMonths :
          \E a \in (IF m = NULL THEN YearlyAmounts ELSE MonthlyAmounts) :
              StartBudget(r, o, k, m, a)
    \/ \E r \in ReqIds : CommitUpsert(r)
    \/ \E r \in ReqIds : Reconcile(r)
    \/ \E r \in ReqIds, done \in 0..MonthsPerYear : CommitFan(r, done)

SpecBudgetTx == InitBudgetTx /\ [][NextBudgetTx]_vars

\* the rows of a key that a step changed, added or removed
ChangedRows(before, after) == (before \ after) \cup (after \ before)

\* C14: no reader sees a fan-out or fan-in partly applied: the commit of a
\* fan-out leaves every month 1..12 at the twelfth of the request, the commit
\* of a fan-in changes the yearly entry only, a fan-out or fan-in that fails
\* changes no row and raises, and no other step of a request touches a
\* sibling entry.
C14_FanIsAtomic ==
    [][/\ last'.op \in {"start_budget", "reconcile"} => budget_plans' = budget_plans
       /\ last'.op = "commit_upsert" =>
              \A b \in ChangedRows(budget_plans, budget_plans') : b.month = last'.month
       /\ last'.op = "commit_fan" =>
              IF last'.raised THEN budget_plans' = budget_plans
              ELSE IF last'.month = NULL
              THEN \A m \in YearMonths :
                       \E b \in BudgetRows(budget_plans', last'.owner, last'.key, m) :
                           IsTwelfth(b.amount, last'.amount)
              ELSE \A b \in ChangedRows(budget_plans, budget_plans') :
                       b.month = NULL]_vars

\* a fan-out has failed after some of its statements, with the months still
\* at their old amounts, which differ from the twelfth of the request
C14_Witness ==
    /\ last.op = "commit_fan" /\ last.raised /\ last.month = NULL
    /\ AllMonthsExist(budget_plans, last.owner, last.key)
    /\ \A b \in MonthEntries(budget_plans, last.owner, last.key) :
           ~IsTwelfth(b.amount, last.amount)

(***************************************************************************)
(* Properties of the loader's error handling and sessions                  *)
(***************************************************************************)
BatchHashes(batch) == {batch[i].transaction_hash : i \in 1..Len(batch)}

\* the positions of the batch whose record fails in the loop
FailingAt(batch) == {i \in 1..Len(batch) : ~batch[i].ok}

\* C15: when one record of a batch fails, load returns its statistics with
\* errors = 1 instead of raising, and every fingerprint of a record that
\* did not fail is persisted afterwards.
C15_OneFailureCounted ==
    [][(/\ last'.op = "load"
        /\ Cardinality(FailingAt(last'.batch)) = 1
        /\ \A i \in FailingAt(last'.batch) :
               last'.batch[i].transaction_hash \notin ExistingHashes(transactions))
       => /\ ~last'.raised
          /\ last'.stats.errors = 1
          /\ \A i \in 1..Len(last'.batch) :
                 last'.batch[i].ok =>
                     last'.batch[i].transaction_hash \in ExistingHashes(transactions')]_vars

\* C16: load called standalone leaves the session of any caller alone and
\* is all-or-nothing: when it raises no row was persisted, when it returns
\* every record it counted as inserted is persisted.  load handed a session
\* persists nothing and leaves the transaction open: what the session had
\* flushed or held is still there, followed by the batch's inserts, pending.
C16_CommitsIffOwnSession ==
    [][/\ last'.op = "load" =>
              /\ sess' = sess
              /\ last'.raised => transactions' = transactions
              /\ ~last'.raised =>
                     /\ transactions \subseteq transactions'
                     /\ Cardinality(transactions') =
                            Cardinality(transactions) + last'.stats.inserted
       /\ last'.op = "load_session" =>
              /\ transactions' = transactions
              /\ ~last'.raised =>
                     /\ Len(sess'.pending) = last'.stats.inserted
                     /\ sess.flushed \subseteq sess'.flushed
                     /\ Cardinality(sess'.flushed) =
                            Cardinality(sess.flushed) + Len(sess.pending)]_vars

\* load was handed a session and returned with inserts pending in it
C16_Witness ==
    /\ last.op = "load_session"
    /\ ~last.raised
    /\ last.stats.inserted > 0
    /\ Len(sess.pending) = last.stats.inserted

(***************************************************************************)
(* ProcessedFileTracker on its own and in the session of a caller          *)
(***************************************************************************)
MaxMarks == 2
RecordCounts == {0, 3}

\* mark_processed(filename, file_type, record_count): own session, commit,
\* IntegrityError swallowed
MarkProcessed(filename, record_count) ==
    /\ processed_files' = mark_processed(processed_files, filename,
                                         identify_file_type(filename), record_count)
    /\ last' = [NoLast EXCEPT !.op = "mark_processed", !.files = {filename}]
    /\ UNCHANGED <<transactions, categories, fileRows, sess, ingested,
                   budgetVars, rulesVars, flightVars>>

\* mark_processed(filename, file_type, record_count, session): session.add()
\* and nothing else; add() sends no statement and raises nothing
MarkInSession(filename, record_count) ==
    /\ Len(sess.markers) < MaxMarks
    /\ sess' = [sess EXCEPT !.markers =
           Append(@, NewProcessedFile(filename, identify_file_type(filename),
                                      record_count))]
    /\ last' = [NoLast EXCEPT !.op = "mark_session", !.files = {filename}]
    /\ UNCHANGED <<transactions, processed_files, categories, fileRows, ingested,
                   budgetVars, rulesVars, flightVars>>

InitMark ==
    /\ transactions = {}
    /\ processed_files \in
           {{}} \cup {{OldMarker(o, f)} : o \in Owners, f \in FileNames}
    /\ categories = {[DefaultCategory EXCEPT !.user_id = 1]}
    /\ fileRows = [f \in FileNames |-> << >>]
    /\ sess = NoSess
    /\ ingested = {}
    /\ last = NoLast
    /\ InitOther

NextMark ==
    \/ \E f \in FileNames, n \in RecordCounts : MarkProcessed(f, n)
    \/ \E f \in FileNames, n \in RecordCounts : MarkInSession(f, n)
    \/ SessionCommit
    \/ SessionRollback

SpecMark == InitMark /\ [][NextMark]_vars

\* the files the session is about to mark
MarkedInSession(s) == {s.markers[i].filename : i \in 1..Len(s.markers)}

LoadFor(owner, batch) ==
    LET r == LoadOwn(transactions, batch)
    IN /\ transactions' = r.rows
       /\ last' = [NoLast EXCEPT !.op = "load_for", !.raised = r.raised,
                      !.batch = batch, !.stats = r.stats, !.owner = owner]
       /\ UNCHANGED <<processed_files, categories, fileRows, sess, ingested,
                      budgetVars, rulesVars, flightVars>>

\* is_processed(filename) while the files of an owner are ingested
IsProcessedFor(owner, filename) ==
    /\ last' = [NoLast EXCEPT !.op = "is_processed", !.files = {filename},
                   !.owner = owner,
                   !.result = <<is_processed(processed_files, filename)>>]
    /\ UNCHANGED <<ingestVars, budgetVars, rulesVars, flightVars>>

GoodRecords == {r \in Records : r.ok /\ r.category = "Groceries"}

InitScope ==
    /\ \E S \in SUBSET (Owners \X Hashes) :
           transactions = {OldTransaction(p[1], p[2]) : p \in S}
    /\ processed_files \in
           {{}} \cup {{OldMarker(o, f)} : o \in Owners, f \in FileNames}
    /\ categories = {[DefaultCategory EXCEPT !.user_id = 1]}
    /\ fileRows = [f \in FileNames |-> << >>]
    /\ sess = NoSess
    /\ ingested = {}
    /\ last = NoLast
    /\ InitOther

NextScope ==
    \/ \E o \in Owners, batch \in SeqsUpTo(GoodRecords, MaxFileLen) : LoadFor(o, batch)
    \/ \E o \in Owners, f \in FileNames : IsProcessedFor(o, f)

SpecScope == InitScope /\ [][NextScope]_vars

\* the fingerprints persisted for an owner
OwnerHashes(rows, owner) ==
    {r.transaction_hash : r \in {x \in rows : x.user_id = owner}}

\* C18: a load that returns has skipped exactly the records whose
\* fingerprint is persisted for the owner being loaded or stands earlier in
\* the batch, and is_processed is true exactly when the owner asking has a
\* marker for the filename.
C18_ScopedPerOwner ==
    [][/\ (last'.op = "load_for" /\ ~last'.raised) =>
              last'.stats.skipped =
                  Cardinality({i \in 1..Len(last'.batch) :
                      \/ last'.batch[i].transaction_hash
                             \in OwnerHashes(transactions, last'.owner)
                      \/ \E j \in 1..(i - 1) :
                             last'.batch[j].transaction_hash =
                                 last'.batch[i].transaction_hash})
       /\ last'.op = "is_processed" =>
              last'.result =
                  <<\E m \in processed_files :
                        m.user_id = last'.owner /\ m.filename \in last'.files>>]_vars

(***************************************************************************)
(* Two loads for one owner, step by step                                   *)
(***************************************************************************)
LoadIds == {1, 2}

\* load(batch) opens its session and reads the fingerprints of the table
ReadExisting(l, batch) ==
    /\ inflight[l] = Idle
    /\ inflight' = [inflight EXCEPT ![l] =
           [pc |-> "loop", batch |-> batch,
            existing_hashes |-> ExistingHashes(transactions), acc |-> LoadAcc]]
    /\ last' = [NoLast EXCEPT !.op = "read_existing", !.id = l, !.batch = batch]
    /\ UNCHANGED <<ingestVars, budgetVars, rulesVars>>

\* the for loop: the rows are added to the session of the load
InsertPending(l) ==
    LET q == inflight[l]
    IN /\ q.pc = "loop"
       /\ inflight' = [inflight EXCEPT ![l] =
              [q EXCEPT !.pc = "commit",
                        !.acc = LoadLoop(q.batch, q.existing_hashes, LoadAcc)]]
       /\ last' = [NoLast EXCEPT !.op = "insert_pending", !.id = l, !.batch = q.batch]
       /\ UNCHANGED <<ingestVars, budgetVars, rulesVars>>

\* session.commit(): the INSERTs reach the table as it is now; a failure
\* rolls back and is raised
CommitLoad(l) ==
    LET q == inflight[l]
        fl == FlushTx(transactions, q.acc.added)
    IN /\ q.pc = "commit"
       /\ transactions' = IF fl.ok THEN fl.rows ELSE transactions
       /\ inflight' = [inflight EXCEPT ![l] = [q EXCEPT !.pc = "done"]]
       /\ last' = [NoLast EXCEPT !.op = "commit_load", !.id = l, !.batch = q.batch,
                      !.raised = ~fl.ok,
                      !.stats = IF fl.ok THEN StatsOf(q.batch, q.acc) ELSE NoStats]
       /\ UNCHANGED <<processed_files, categories, fileRows, sess, ingested,
                      budgetVars, rulesVars>>

InitRace ==
    /\ \E S \in SUBSET Hashes : transactions = {OldTransaction(1, h) : h \in S}
    /\ processed_files = {}
    /\ categories = {[DefaultCategory EXCEPT !.user_id = 1]}
    /\ fileRows = [f \in FileNames |-> << >>]
    /\ sess = NoSess
    /\ ingested = {}
    /\ budget_plans = {}
    /\ nextBudgetId = 1
    /\ rules = {}
    /\ nextRuleId = 1
    /\ cache = NoCache
    /\ now = 1
    /\ inflight = [l \in LoadIds |-> Idle]
    /\ last = NoLast

NextRace ==
    \/ \E l \in LoadIds, batch \in SeqsUpTo(GoodRecords, MaxFileLen) :
          ReadExisting(l, batch)
    \/ \E l \in LoadIds : InsertPending(l)
    \/ \E l \in LoadIds : CommitLoad(l)

SpecRace == InitRace /\ [][NextRace]_vars

\* C19: once two loads that share a fingerprint have both ended, the table
\* holds exactly one row for every fingerprint of the two batches.
C19_ConcurrentLoadsAsSequential ==
    (/\ \A l \in LoadIds : inflight[l].pc = "done"
     /\ BatchHashes(inflight[1].batch) \cap BatchHashes(inflight[2].batch) # {})
    => \A h \in BatchHashes(inflight[1].batch) \cup BatchHashes(inflight[2].batch) :
           Cardinality({r \in transactions : r.transaction_hash = h}) = 1

(***************************************************************************)
(* Two monthly upserts of one key at once                                  *)
(***************************************************************************)
\* C20: once two monthly upserts of one key have both returned and the twelve
\* months exist, the key has exactly one yearly entry, and its amount is the
\* sum of the twelve monthly amounts as stored.
C20_ConcurrentFanIn ==
    (/\ \A r \in ReqIds :
            inflight[r].pc = "done" /\ ~inflight[r].raised /\ inflight[r].month # NULL
     /\ inflight[1].owner = inflight[2].owner
     /\ inflight[1].key = inflight[2].key
     /\ AllMonthsExist(budget_plans, inflight[1].owner, inflight[1].key))
    => LET yearly == YearEntries(budget_plans, inflight[1].owner, inflight[1].key)
           months == MonthEntries(budget_plans, inflight[1].owner, inflight[1].key)
       IN /\ Cardinality(yearly) = 1
          /\ \A y \in yearly : y.amount = SumAmounts(months)

(***************************************************************************)
(* Staleness of the rule cache                                             *)
(***************************************************************************)
\* C21: a classification call that reaches the rule list and does not fail
\* to load it either reuses the cached list, unchanged and less than 60
\* seconds old, or works with the active rules of the store as they are
\* now, in the order of the query, and caches them with the time of the call.
C21_BoundedStaleness ==
    [][(last'.op = "classify" /\ last'.description # << >> /\ ~last'.raised) =>
          /\ last'.result = RuleLoop(cache'.rules, last'.description, last'.amount)
          /\ IF cache.filled /\ now - cache.time < CacheWindow
             THEN cache' = cache
             ELSE /\ cache'.filled
                  /\ cache'.time = now
                  /\ cache'.rules \in SortedOrders({r \in rules : r.is_active})]_vars

\* a call made 60 seconds or more after the start has just loaded the list,
\* and the list leaves out a rule that has been deactivated
C21_Witness ==
    /\ last.op = "classify" /\ last.description # << >> /\ ~last.raised
    /\ now > CacheWindow
    /\ cache.filled /\ cache.time = now
    /\ \E r \in rules : ~r.is_active /\ r \notin SetOfSeq(cache.rules)
    /\ cache.rules # << >>

(***************************************************************************)
(* Budget upserts one after the other                                      *)
(***************************************************************************)
\* C22: after every step no two entries share (owner, key, month), and an
\* upsert of an entry that exists returns the id of that entry, which now
\* holds the amount of the request, and leaves the number of entries for
\* its (owner, key, month) at one.
C22_UpsertKeepsOneEntry ==
    [][/\ \A b1, b2 \in budget_plans' :
              (b1.user_id = b2.user_id /\ b1.key = b2.key /\ b1.month = b2.month)
              => b1 = b2
       /\ (/\ last'.op = "create_budget"
           /\ BudgetRows(budget_plans, last'.owner, last'.key, last'.month) # {})
          => \E b \in BudgetRows(budget_plans, last'.owner, last'.key, last'.month) :
                 /\ last'.id = b.id
                 /\ BudgetRows(budget_plans', last'.owner, last'.key, last'.month)
                        = {[b EXCEPT !.amount = last'.amount]}]_vars

\* a monthly upsert has returned the id of an entry that is older than any
\* entry the request could have created, with the amount of the request
C22_Witness ==
    /\ last.op = "create_budget"
    /\ last.month \in EditMonths
    /\ last.id < nextBudgetId - 2
    /\ \E b \in budget_plans :
           b.id = last.id /\ b.month = last.month /\ b.amount = last.amount

(***************************************************************************)
(* Failures of a file inside an ingestion call                             *)
(***************************************************************************)
\* C23: with the default categories in place, a call of run or of
\* process_files returns its statistics and has worked on every file it was
\* given that was due (forced, or without a marker), whether or not the
\* processing of one of them failed.
C23_FileFailureIsContained ==
    [][(/\ last'.op \in {"run", "process_files"}
        /\ categories # {})
       => /\ ~last'.raised
          /\ \A f \in last'.files :
                 (last'.force \/ ~is_processed(processed_files, f))
                 => f \in last'.extracted]_vars

(***************************************************************************)
(* _generate_hash                                                          *)
(***************************************************************************)
Desc1Limit == 50
SectorLimit == 30
BookingLimit == 30

\* str[:n]
Prefix(str, n) == SubSeq(str, 1, IF Len(str) < n THEN Len(str) ELSE n)

\* a string of n characters
Pad(n) == [i \in 1..n |-> "x"]

\* raw.date.strftime("%Y-%m-%d"): the time of day is not printed
strftime(date) == date.day

\* f"{raw.amount:.2f}", for amounts given in tenths of a cent
Format2(amount) ==
    LET cents == (amount + 5) \div 10
    IN IF cents = 100 THEN "1.00" ELSE IF cents = 101 THEN "1.01" ELSE "0.00"

\* "|".join(hash_parts), as the sequence of its characters; the parts that
\* are not description fields are one character each
RECURSIVE Join(_)
Join(parts) ==
    IF Len(parts) = 0 THEN << >>
    ELSE IF Len(parts) = 1 THEN Head(parts)
    ELSE Head(parts) \o <<"|">> \o Join(Tail(parts))

\* _generate_hash(raw): SHA-256 is taken to be injective, so the digest is
\* represented by the string that is hashed
generate_hash(raw) ==
    LET hash_parts == << <<strftime(raw.date)>>, <<Format2(raw.amount)>>,
                         <<raw.source>>,
                         <<IF raw.is_credit THEN "credit" ELSE "debit">> >>
    IN IF raw.source = "UBS"
       THEN Join(hash_parts \o <<Prefix(raw.field1, Desc1Limit), raw.field2>>)
       ELSE Join(hash_parts \o <<Prefix(raw.field1, SectorLimit),
                                 Prefix(raw.field2, BookingLimit)>>)

\* the pairs (description1, transaction no.) of a ledger row, or (sector,
\* booking text) of an invoice row
FieldPairs ==
    {<< << >>, << >> >>, << <<"a">>, << >> >>, << << >>, <<"a">> >>,
     << <<"a", "|">>, << >> >>, << <<"a">>, <<"|">> >>,
     <<Pad(SectorLimit), << >> >>, <<Pad(SectorLimit + 1), << >> >>,
     <<Pad(Desc1Limit), << >> >>, <<Pad(Desc1Limit + 1), << >> >>,
     << << >>, Pad(BookingLimit)>>, << << >>, Pad(BookingLimit + 1)>>}

HashInputs ==
    {[date |-> [day |-> d, hour |-> 0], amount |-> a, source |-> src,
      is_credit |-> c, field1 |-> fp[1], field2 |-> fp[2]] :
        d \in {"2025-01-01", "2025-01-02"}, a \in {1000, 1004, 1010},
        src \in {"UBS", "CC"}, c \in BOOLEAN, fp \in FieldPairs}

\* the fingerprints of the two raw transactions at hand
GenerateHash ==
    /\ last.op = "none"
    /\ last' = [last EXCEPT !.op = "generate_hash",
                   !.result = <<generate_hash(last.input[1]),
                                generate_hash(last.input[2])>>]
    /\ UNCHANGED <<ingestVars, budgetVars, rulesVars, flightVars>>

InitHash ==
    /\ transactions = {}
    /\ processed_files = {}
    /\ categories = {}
    /\ fileRows = [f \in FileNames |-> << >>]
    /\ sess = NoSess
    /\ ingested = {}
    /\ \E raw1 \in HashInputs, raw2 \in HashInputs :
           last = [NoLast EXCEPT !.input = <<raw1, raw2>>]
    /\ InitOther

NextHash == GenerateHash

SpecHash == InitHash /\ [][NextHash]_vars

\* the fields the fingerprint is said to be a function of
SameHashFields(r1, r2) ==
    /\ r1.date.day = r2.date.day
    /\ (r1.amount + 5) \div 10 = (r2.amount + 5) \div 10
    /\ r1.source = r2.source
    /\ r1.is_credit = r2.is_credit
    /\ r1.field1 = r2.field1
    /\ r1.field2 = r2.field2

\* C24: two raw transactions get the same fingerprint exactly when they
\* agree on date, amount to two decimals, source, polarity and the two
\* disambiguating fields of their source.
C24_FingerprintInjective ==
    (last.op = "generate_hash") =>
        (SameHashFields(last.input[1], last.input[2])
         <=> last.result[1] = last.result[2])

(***************************************************************************)
(* The rows load finds in the table                                        *)
(***************************************************************************)
\* C25: every row that is persisted before a call of load, standalone or in
\* the session of a caller, is persisted after it with every field as it was.
C25_LoadKeepsStoredRows ==
    [][last'.op \in {"load", "load_session"} =>
          \A r \in transactions : r \in transactions']_vars

\* a load has returned after skipping a record whose fingerprint is stored
\* with another category than the one the record now carries
C25_Witness ==
    /\ last.op = "load" /\ ~last.raised /\ last.stats.skipped > 0
    /\ \E i \in 1..Len(last.batch), r \in transactions :
           /\ r.transaction_hash = last.batch[i].transaction_hash
           /\ r.category # last.batch[i].category

(***************************************************************************)
(* apply_rules_to_transactions                                             *)
(***************************************************************************)
\* the "for transaction in transactions" loop: the rows of the user go
\* through _check_custom_rules of one transformer, whose cache they share
RECURSIVE ApplyLoop(_, _, _, _, _, _)
ApplyLoop(todo, c, t, raises, order, acc) ==
    IF todo = {} THEN acc
    ELSE LET transaction == CHOOSE x \in todo : TRUE
             m == check_custom_rules(c, t, raises, order,
                                     transaction.description, transaction.amount)
             differs == /\ m.result # << >>
                        /\ \/ transaction.type # m.result[1]
                           \/ transaction.category # m.result[2]
             row == IF differs
                    THEN [transaction EXCEPT !.type = m.result[1],
                                             !.category = m.result[2]]
                    ELSE transaction
         IN ApplyLoop(todo \ {transaction}, m.cache, t, raises, order,
                      [rows |-> acc.rows \cup {row},
                       updated_count |-> acc.updated_count + (IF differs THEN 1 ELSE 0),
                       raised |-> acc.raised \/ m.raised])

\* apply_rules_to_transactions for current_user: the rows after the commit
\* and the count it reports
apply_rules(rows, rs, owner, t, raises, order) ==
    LET mine == {r \in rows : r.user_id = owner}
    IN IF ActiveRules(rs) = {} \/ mine = {}
       THEN [rows |-> rows, updated_count |-> 0, raised |-> FALSE]
       ELSE LET a == ApplyLoop(mine, NoCache, t, raises, order,
                               [rows |-> {}, updated_count |-> 0, raised |-> FALSE])
            IN [rows |-> (rows \ mine) \cup a.rows,
                updated_count |-> a.updated_count, raised |-> a.raised]

\* POST /rules/apply; raises: the queries of the transformer fail
ApplyRules(owner, raises, order) ==
    LET r == apply_rules(transactions, rules, owner, now, raises, order)
    IN /\ transactions' = r.rows
       /\ last' = [NoLast EXCEPT !.op = "apply_rules", !.owner = owner,
                      !.raised = r.raised, !.order = order,
                      !.result = <<r.updated_count>>]
       /\ UNCHANGED <<processed_files, categories, fileRows, sess, ingested,
                      budgetVars, rulesVars, flightVars>>

\* a persisted transaction of an owner
StoredTransaction(id, owner, type, description) ==
    [id |-> id, user_id |-> owner, transaction_hash |-> id, type |-> type,
     category |-> "Groceries", description |-> description, amount |-> 15]

InitApply ==
    /\ transactions = {StoredTransaction(1, 1, "Income", <<"a">>),
                       StoredTransaction(2, 1, "Expenses", <<"A", "b">>),
                       StoredTransaction(3, 1, "Expenses", << >>),
                       StoredTransaction(4, 2, "Income", <<"a">>)}
    /\ processed_files = {}
    /\ categories = {}
    /\ fileRows = [f \in FileNames |-> << >>]
    /\ sess = NoSess
    /\ ingested = {}
    /\ budget_plans = {}
    /\ nextBudgetId = 1
    /\ \E d1 \in RuleInputs, d2 \in RuleInputs, t2 \in {1, 2}, both \in BOOLEAN :
           rules = {NewRule(1, d1, 1)} \cup (IF both THEN {NewRule(2, d2, t2)} ELSE {})
    /\ nextRuleId = 3
    /\ cache = NoCache
    /\ inflight = NoFlight
    /\ now = 2
    /\ last = NoLast

NextApply ==
    \/ \E o \in Owners, raises \in BOOLEAN :
          \E order \in SortedOrders(ActiveRules(rules)) : ApplyRules(o, raises, order)
    \/ \E rule_id \in RuleIds, rule_data \in RuleUpdates :
          UpdateRule(rule_id, rule_data)

SpecApply == InitApply /\ [][NextApply]_vars

\* the active rules that match a stored transaction
MatchingStored(rs, row) ==
    {r \in ActiveRules(rs) : Matches(r, row.description, row.amount)}

\* the row after the application: labelled by a matching rule no other
\* matching rule outranks, or untouched if no rule matches
Relabelled(rs, row, after) ==
    IF MatchingStored(rs, row) = {} THEN after = row
    ELSE \E r \in MatchingStored(rs, row) :
             /\ \A q \in MatchingStored(rs, row) : Outranks(r, q)
             /\ after = [row EXCEPT !.type = r.type, !.category = r.category]

\* C26: an application that loads the rules gives every transaction of the
\* current user that matches an active rule the type and category of the
\* first matching rule in precedence order, leaves the others and those of
\* other users as they are, and reports zero updates when it follows an
\* application by the same user.
C26_ApplyRules ==
    [][(last'.op = "apply_rules" /\ ~last'.raised) =>
          /\ \A row \in transactions :
                 IF row.user_id = last'.owner
                 THEN \E after \in transactions' :
                          after.id = row.id /\ Relabelled(rules, row, after)
                 ELSE row \in transactions'
          /\ (last.op = "apply_rules" /\ ~last.raised /\ last.owner = last'.owner)
                 => last'.result = <<0>>]_vars

(***************************************************************************)
(* The marker of a file and the load of its records                        *)
(***************************************************************************)
\* the fingerprints of the rows of a file
FileHashes(f) == {fileRows[f][i] : i \in 1..Len(fileRows[f])}

\* C27: in a call of run or process_files a marker appears for a file only
\* if the file went through extract to load and the load returned; a file
\* whose load raised gets no marker; and a file whose records are all
\* persisted but which has no marker, as after an interruption between the
\* load and the mark, is processed by a run with force=false that returns,
\* after which it has its marker and no row was added.
C27_MarkAfterLoad ==
    [][\A f \in FileNames :
          (last'.op \in {"process_files", "run"} /\ f \in last'.files) =>
              /\ (is_processed(processed_files', f) /\ ~is_processed(processed_files, f))
                     => (f \in last'.extracted /\ f \in ingested')
              /\ (f \in last'.extracted /\ f \notin ingested')
                     => (is_processed(processed_files', f)
                             <=> is_processed(processed_files, f))
              /\ (/\ ~last'.raised /\ ~last'.force
                  /\ categories # {}
                  /\ ~is_processed(processed_files, f)
                  /\ FileHashes(f) \subseteq ExistingHashes(transactions))
                     => /\ f \in last'.extracted
                        /\ transactions' = transactions
                        /\ is_processed(processed_files', f)]_vars

(***************************************************************************)
(* Budgets of two owners, with and without auto-populate                   *)
(***************************************************************************)
\* bulk_delete_budgets(budget_ids) for current_user
BulkDeleteBudgets(owner, budget_ids) ==
    LET rows == {b \in budget_plans : b.id \in budget_ids /\ b.user_id = owner}
    IN /\ budget_plans' = budget_plans \ rows
       /\ last' = [NoLast EXCEPT !.op = "bulk_delete_budgets", !.owner = owner,
                      !.result = <<Cardinality(rows)>>]
       /\ UNCHANGED <<nextBudgetId, ingestVars, rulesVars, flightVars>>

\* the months the requests of this specification name
OwnerMonths == {NULL, 1}

NextBudgetOwners ==
    \/ \E o \in Owners, k \in BudgetKeys, m \in OwnerMonths, auto \in BOOLEAN :
          CreateBudget(o, k, m, IF m = NULL THEN 1200 ELSE 150, auto)
    \/ \E o \in Owners, b \in budget_plans :
          b.month \in OwnerMonths /\ DeleteBudget(o, b.id)
    \/ \E o \in Owners :
          BulkDeleteBudgets(o, {b.id : b \in {x \in budget_plans : x.month \in OwnerMonths}})

\* the store after owner 1 has entered the months 2..12 of a key one by one
\* without auto-populate
ElevenMonths ==
    {[id |-> m - 1, user_id |-> 1, key |-> "Expenses/Rent", month |-> m,
      amount |-> 100] : m \in 2..MonthsPerYear}

InitBudgetOwners ==
    /\ transactions = {}
    /\ processed_files = {}
    /\ categories = {}
    /\ fileRows = [f \in FileNames |-> << >>]
    /\ sess = NoSess
    /\ ingested = {}
    /\ budget_plans = ElevenMonths
    /\ nextBudgetId = MonthsPerYear
    /\ rules = {}
    /\ nextRuleId = 1
    /\ cache = NoCache
    /\ inflight = NoFlight
    /\ now = 1
    /\ last = NoLast

SpecBudgetOwners == InitBudgetOwners /\ [][NextBudgetOwners]_vars

\* C28: an upsert with auto-populate disabled creates or changes the entry
\* of the (owner, key, month) of the request and no other.
C28_NoAutoPopulateFrame ==
    [][(last'.op = "create_budget" /\ ~last'.auto) =>
          /\ \A b \in ChangedRows(budget_plans, budget_plans') :
                 b.user_id = last'.owner /\ b.key = last'.key /\ b.month = last'.month
          /\ \E b \in budget_plans' :
                 /\ b.id = last'.id /\ b.user_id = last'.owner
                 /\ b.month = last'.month /\ b.amount = last'.amount]_vars

\* a monthly upsert without auto-populate has returned with all 12 months
\* present and a yearly entry that is not their sum
C28_Witness ==
    /\ last.op = "create_budget" /\ ~last.auto /\ last.month # NULL
    /\ AllMonthsExist(budget_plans, last.owner, last.key)
    /\ \E y \in YearEntries(budget_plans, last.owner, last.key) :
           y.amount # SumAmounts(MonthEntries(budget_plans, last.owner, last.key))

\* the entries of an owner
OwnedBy(plans, owner) == {b \in plans : b.user_id = owner}

\* C29: an upsert, a delete and a bulk delete by one owner leave the entries
\* of every other owner as they were, and a monthly upsert writes the yearly
\* entry of its owner only when that owner has exactly 12 monthly entries
\* for the key, with their sum.
C29_OwnerIsolation ==
    [][last'.op \in {"create_budget", "delete_budget", "bulk_delete_budgets"} =>
          /\ \A o \in Owners \ {last'.owner} :
                 OwnedBy(budget_plans', o) = OwnedBy(budget_plans, o)
          /\ (last'.op = "create_budget" /\ last'.auto /\ last'.month # NULL) =>
                 LET before == YearEntries(budget_plans, last'.owner, last'.key)
                     after  == YearEntries(budget_plans', last'.owner, last'.key)
                 IN IF Cardinality({b \in budget_plans' :
                                       /\ b.user_id = last'.owner
                                       /\ b.key = last'.key
                                       /\ b.month # NULL}) = MonthsPerYear
                    THEN \A y \in after :
                             y.amount = SumAmounts({b \in budget_plans' :
                                                       /\ b.user_id = last'.owner
                                                       /\ b.key = last'.key
                                                       /\ b.month # NULL})
                    ELSE after = before]_vars

\* an owner without a yearly entry has upserted a month with auto-populate
\* while the monthly entries of all owners together number 12, and has no
\* yearly entry; another owner holds entries
C29_Witness ==
    /\ last.op = "create_budget" /\ last.auto /\ last.month # NULL
    /\ Cardinality({b \in budget_plans : b.key = last.key /\ b.month # NULL})
           = MonthsPerYear
    /\ YearEntries(budget_plans, last.owner, last.key) = {}
    /\ \E o \in Owners \ {last.owner} : OwnedBy(budget_plans, o) # {}

(***************************************************************************)
(* A failed load of the rules                                              *)
(***************************************************************************)
\* C30: when the query of the active rules fails, the row is classified by
\* the heuristics alone, the cache is what it was before the call, and it
\* is not a list the next call would reuse.
C30_RuleLoadFailure ==
    [][(last'.op = "transform" /\ last'.raised) =>
          /\ last'.result = heuristics(last'.raw)
          /\ cache' = cache
          /\ ~(cache'.filled /\ now' - cache'.time < CacheWindow)]_vars

\* the query failed in a call whose transformer holds an expired list with
\* a rule that matches the row and carries another label than the result
C30_Witness ==
    /\ last.op = "transform" /\ last.raised
    /\ cache.filled
    /\ \E i \in 1..Len(cache.rules) :
           /\ Matches(cache.rules[i], last.description, last.amount)
           /\ last.result # <<cache.rules[i].type, cache.rules[i].category>>

====
